---------------------------- MODULE Spec2Model ----------------------------
(***************************************************************************)
(* A model of the nerd flow editor core: the packet stream (RawPacket,     *)
(* PacketStream), the circulation engine (NetworkFlow), the registry       *)
(* (FlowManager) and the FlowFile it owns.                                 *)
(*                                                                         *)
(* Strings are sequences of one-character strings, so that the code's      *)
(* character loops and std::string operations are computed, not assumed.   *)
(***************************************************************************)
EXTENDS Integers, Sequences, FiniteSets, TLC

(***************************************************************************)
(* Bounds of the model.                                                    *)
(***************************************************************************)
\* longest flow name the registry is called with
MaxNameLen == 2
\* open_flow / create_circulation_pattern stop being called once
\* next_flow_id_ has passed this value
MaxFlowId == 2
\* AddStream / inject_packet are not called on an engine that already
\* holds this many streams / a stream that holds this many packets
MaxStreams == 2
MaxPackets == 2
\* largest sequence number of an injected packet
MaxSeq == 1
\* longest content a FlowFile is driven to
MaxContent == 2

(***************************************************************************)
(* Program constants.                                                      *)
(***************************************************************************)
FLOW_MAGIC == 1313165892
FLOW_DATA == 1
FLOW_CONTROL == 2
FLOW_HEARTBEAT == 3
FLOW_EDIT == 4
FLOW_DISCOVERY == 5
MAX_AGE_MICROSECONDS == 30000000
MAX_PACKET_SIZE == 1400

(***************************************************************************)
(* Characters and names.                                                   *)
(***************************************************************************)
\* the characters validate_flow_name rejects
HostileChars == {"/", "\\", ":", "*", "?", "\"", "<", ">", "|"}

\* the sequences over S of n elements at most
SeqsUpTo(S, n) == UNION {[1..k -> S] : k \in 0..n}

\* the name of k letters "a"
PlainName(k) == [j \in 1..k |-> "a"]

\* the names open_flow is called with: the empty name, the names of letters
\* only, and every name with one character c in place of a letter; the loop
\* of validate_flow_name returns at the first hostile character it meets
NamesWith(chars) ==
    {PlainName(k) : k \in 0..MaxNameLen}
      \cup UNION {{[PlainName(k) EXCEPT ![i] = c] : i \in 1..k, c \in chars} :
                   k \in 1..MaxNameLen}

AllNames == NamesWith({"/", "\\", ":", "*", "?", "\"", "<", ">", "|", "b"})

\* a faulty validate_flow_name that lets the pipe through; C3 rules it out
ValidateFlowNameNoPipe(name) ==
    IF Len(name) = 0 THEN FALSE
    ELSE \A i \in 1..Len(name) : name[i] \notin (HostileChars \ {"|"})

\* FlowManager::validate_flow_name
validate_flow_name(name) ==
    IF Len(name) = 0 THEN FALSE
    ELSE \A i \in 1..Len(name) : name[i] \notin HostileChars


\* FlowManager::get_active_flow_names is the domain of active_files_; the
\* valid names the registry can hold
ValidNames == {n \in AllNames : validate_flow_name(n)}

(***************************************************************************)
(* RawPacket (packet.h, packet.cpp).  A packet is its header fields and    *)
(* its payload bytes.                                                      *)
(***************************************************************************)
\* RawPacket::RawPacket(flow_id, type, payload), stamped at time t
RawPacket(flow_id, type, payload, t) ==
    [magic |-> FLOW_MAGIC, flow_id |-> flow_id, sequence |-> 0,
     packet_type |-> type, data_length |-> Len(payload),
     timestamp |-> t, payload |-> payload]

\* RawPacket::set_sequence
SetSequence(p, seq) == [p EXCEPT !.sequence = seq]

\* RawPacket::is_valid
IsValid(p) == p.magic = FLOW_MAGIC /\ p.data_length = Len(p.payload)

(***************************************************************************)
(* PacketStream (packet.h, packet.cpp).                                    *)
(***************************************************************************)
\* PacketStream::PacketStream(flow_id)
PacketStream(flow_id) ==
    [flow_id |-> flow_id, packets |-> <<>>, next_sequence |-> 0]

\* a uint32_t u is held as u when u < 2^31 and as u - 2^32 otherwise (the
\* 32-bit two's-complement reading of the same bits); U32Max is 2^32 - 1
U32Max == -1

\* ++ on a uint32_t: 2^31 - 1 goes to 2^31, 2^32 - 1 goes to 0
U32Inc(u) == IF u = 2147483647 THEN (-2147483647) - 1 ELSE u + 1

\* a < b on two uint32_t
U32Less(a, b) == IF (a >= 0) = (b >= 0) THEN a < b ELSE a >= 0

\* the comparator of add_packet leaves ps alone: no packet is followed by
\* one of a smaller sequence
IsSortedBySequence(ps) ==
    \A i \in 1..Len(ps) : \A j \in 1..Len(ps) :
        i < j => ~U32Less(ps[j].sequence, ps[i].sequence)

\* a faulty add_packet that leaves the packets as push_back left them; C24
\* rules it out
SortOutcomesUnsorted(ps) == {ps}

\* the orders std::sort may leave ps in under the comparator
\* a.sequence < b.sequence: std::sort is not a stable sort, so packets with
\* equal sequence numbers may end in any relative order
SortOutcomes(ps) ==
    LET n == Len(ps)
        perms == {f \in [1..n -> 1..n] :
                     \A i \in 1..n : \A j \in 1..n : i # j => f[i] # f[j]}
    IN {q \in {[i \in 1..n |-> ps[f[i]]] : f \in perms} : IsSortedBySequence(q)}

\* PacketStream::add_packet: the streams the call may leave
AddPacket(stream, p) ==
    IF p.flow_id = stream.flow_id
    THEN {[stream EXCEPT !.packets = q] : q \in SortOutcomes(Append(stream.packets, p))}
    ELSE {stream}

\* PacketStream::maintain_circulation at time t: every packet is rebuilt from
\* a default packet by set_header, set_payload (which resets data_length to
\* the payload's size) and SetSequence, then stamped t
MaintainCirculation(stream, t) ==
    [stream EXCEPT !.packets =
        [i \in 1..Len(stream.packets) |->
            [stream.packets[i] EXCEPT !.data_length = Len(stream.packets[i].payload),
                                      !.timestamp = t]]]

\* PacketStream::cleanup_old_packets at time t.  current_time - timestamp is
\* an unsigned 64-bit subtraction: for a timestamp later than current_time it
\* wraps to 2^64 - (timestamp - current_time), which is above the threshold
\* for every pair of times the model reaches
IsOld(p, t) ==
    IF t >= p.timestamp THEN (t - p.timestamp) > MAX_AGE_MICROSECONDS ELSE TRUE

CleanupOldPackets(stream, t) ==
    [stream EXCEPT !.packets = SelectSeq(stream.packets, LAMBDA p : ~IsOld(p, t))]

(***************************************************************************)
(* NetworkFlow (flow.h, flow.cpp): the stream collection.                  *)
(***************************************************************************)
\* NetworkFlow::get_stream: the index of the first stream of flow_id, 0 for
\* nullptr
GetStream(streams, flow_id) ==
    IF \E i \in 1..Len(streams) : streams[i].flow_id = flow_id
    THEN CHOOSE i \in 1..Len(streams) :
            /\ streams[i].flow_id = flow_id
            /\ \A j \in 1..(i - 1) : streams[j].flow_id # flow_id
    ELSE 0

\* NetworkFlow::add_stream
AddStream(streams, flow_id) == Append(streams, PacketStream(flow_id))

\* a faulty remove_stream that removes nothing; C6 rules it out
RemoveStreamKeeps(streams, flow_id) == streams

\* NetworkFlow::remove_stream
RemoveStream(streams, flow_id) ==
    SelectSeq(streams, LAMBDA s : s.flow_id # flow_id)

\* NetworkFlow::inject_packet, the part before send_raw_packet: the stream
\* collections the call may leave
InjectInto(streams, p) ==
    LET found == GetStream(streams, p.flow_id)
        streams1 == IF found = 0 THEN AddStream(streams, p.flow_id) ELSE streams
        idx == GetStream(streams1, p.flow_id)
    IN IF idx = 0 THEN {streams1}
       ELSE {[streams1 EXCEPT ![idx] = s] : s \in AddPacket(streams1[idx], p)}

\* NetworkFlow::sustain_circulation at time t
SustainCirculation(streams, t) ==
    [i \in 1..Len(streams) |->
        CleanupOldPackets(MaintainCirculation(streams[i], t), t)]

\* NetworkFlow::get_active_flows
GetActiveFlows(streams) == [i \in 1..Len(streams) |-> streams[i].flow_id]

(***************************************************************************)
(* CirculationPattern (flow.h).                                            *)
(***************************************************************************)
\* CirculationPattern::CirculationPattern()
DefaultCirculationPattern ==
    [id |-> 0, name |-> <<>>, nodes |-> <<>>, circulation_rate |-> 10,
     max_packet_age |-> 30000000, auto_sustain |-> TRUE]


(***************************************************************************)
(* FlowFile (flow_file.h, flow_file.cpp): content is a string.             *)
(***************************************************************************)
\* the characters contents are built from
ContentChars == {"x", "\n"}

\* index of the first "\n" of c, 0 if there is none
FirstNewline(c) ==
    IF \E i \in 1..Len(c) : c[i] = "\n"
    THEN CHOOSE i \in 1..Len(c) : c[i] = "\n" /\ \A j \in 1..(i - 1) : c[j] # "\n"
    ELSE 0

\* FlowFile::split_into_lines: std::getline until it fails, so a final "\n"
\* opens no further line
RECURSIVE SplitIntoLines(_)
SplitIntoLines(c) ==
    IF Len(c) = 0 THEN <<>>
    ELSE LET k == FirstNewline(c)
         IN IF k = 0 THEN <<c>>
            ELSE <<SubSeq(c, 1, k - 1)>> \o SplitIntoLines(SubSeq(c, k + 1, Len(c)))

\* FlowFile::join_lines
RECURSIVE JoinLines(_)
JoinLines(lines) ==
    IF Len(lines) = 0 THEN <<>>
    ELSE IF Len(lines) = 1 THEN lines[1]
    ELSE lines[1] \o <<"\n">> \o JoinLines(Tail(lines))

\* FlowFile::append_content, the new content_
AppendContent(c, line) ==
    (IF Len(c) # 0 /\ c[Len(c)] # "\n" THEN c \o <<"\n">> ELSE c) \o line

\* FlowFile::delete_content: the guard of the if, and the new content_
DeleteInRange(c, start_line, end_line) ==
    LET n == Len(SplitIntoLines(c))
    IN start_line >= 0 /\ start_line < n /\ end_line >= start_line /\ end_line < n

DeleteContent(c, start_line, end_line) ==
    LET lines == SplitIntoLines(c)
    IN JoinLines(SubSeq(lines, 1, start_line) \o SubSeq(lines, end_line + 2, Len(lines)))

\* FlowFile::insert_content: the guard of the if, and the new content_
InsertInRange(c, line) == line >= 0 /\ line <= Len(SplitIntoLines(c))

InsertContent(c, line, text) ==
    LET lines == SplitIntoLines(c)
    IN JoinLines(SubSeq(lines, 1, line) \o SplitIntoLines(text)
                 \o SubSeq(lines, line + 1, Len(lines)))

\* std::string::find(pattern, pos), counting positions from 0; -1 is npos
Find(c, pattern, pos) ==
    LET hits == {i \in pos..(Len(c) - Len(pattern)) :
                    SubSeq(c, i + 1, i + Len(pattern)) = pattern}
    IN IF hits = {} THEN -1 ELSE CHOOSE i \in hits : \A j \in hits : i <= j

\* std::string::replace(pos, len, replacement)
Replace(c, pos, len, replacement) ==
    SubSeq(c, 1, pos) \o replacement \o SubSeq(c, pos + len + 1, Len(c))

\* FlowFile::substitute_content, the loop from position pos on, for a
\* pattern that is not empty (the loop ends: every round moves pos forward
\* or shortens content_)
RECURSIVE SubstituteFrom(_, _, _, _)
SubstituteFrom(c, pattern, replacement, pos) ==
    LET at == Find(c, pattern, pos)
    IN IF at = -1 THEN c
       ELSE SubstituteFrom(Replace(c, at, Len(pattern), replacement),
                           pattern, replacement, at + Len(replacement))

\* the byte a char of content_ is stored as, and the char a byte is read as
\* (static_cast between char and uint8_t)
CharToByte(c) == IF c = "\n" THEN 10 ELSE 120
ByteToChar(b) == IF b = 10 THEN "\n" ELSE "x"

\* FlowFile::serialize_content / deserialize_content: one byte per char
SerializeContent(c) == [i \in 1..Len(c) |-> CharToByte(c[i])]
DeserializeContent(data) == [i \in 1..Len(data) |-> ByteToChar(data[i])]

\* a faulty encode_content_in_packets that puts all that is left into one
\* packet; C32 rules it out
EncodeFromWhole(data, id, offset, sequence, t) ==
    IF offset >= Len(data) THEN <<>>
    ELSE <<SetSequence(RawPacket(id, FLOW_DATA, SubSeq(data, offset + 1, Len(data)), t),
                       sequence)>>

\* FlowFile::encode_content_in_packets: the packets the loop builds (and
\* only logs) for content c of flow id at time t
RECURSIVE EncodeFrom(_, _, _, _, _)
EncodeFrom(data, id, offset, sequence, t) ==
    IF offset >= Len(data) THEN <<>>
    ELSE LET rest == Len(data) - offset
             chunk_size == IF MAX_PACKET_SIZE < rest THEN MAX_PACKET_SIZE ELSE rest
             chunk == SubSeq(data, offset + 1, offset + chunk_size)
         IN <<SetSequence(RawPacket(id, FLOW_DATA, chunk, t), sequence)>>
            \o EncodeFrom(data, id, offset + chunk_size, sequence + 1, t)

EncodeContentInPackets(file, t) ==
    EncodeFrom(SerializeContent(file.content), file.identifier, 0, 0, t)

\* FlowFile::FlowFile(id, name)
FlowFile(id, name) ==
    [identifier |-> id, name |-> name, content |-> <<>>, is_modified |-> FALSE,
     pattern |-> [DefaultCirculationPattern EXCEPT !.id = id, !.name = name],
     circulation_path |-> <<>>, has_callback |-> FALSE]

\* FlowFile::update_circulation_pattern
UpdateCirculationPattern(file, pattern) ==
    [file EXCEPT !.pattern = pattern, !.is_modified = TRUE]

\* a faulty mutator that stores the new content_ and forgets is_modified_;
\* C8 rules it out
FileMutatedUnflagged(file, content) == [file EXCEPT !.content = content]

\* what append_content, write_to_flow, deserialize_content,
\* substitute_content, delete_content and insert_content do after they have
\* computed the new content_: store it and set is_modified_
FileMutated(file, content) ==
    [file EXCEPT !.content = content, !.is_modified = TRUE]

\* FlowFile::notify_content_change: how many times the callback is invoked
NotifyContentChange(file) == IF file.has_callback THEN 1 ELSE 0

\* FlowFile::maintain_flow, the file it leaves (broadcast_existence only
\* prints)
MaintainFlow(file) ==
    IF file.is_modified THEN [file EXCEPT !.is_modified = FALSE] ELSE file


(***************************************************************************)
(* The state.                                                              *)
(***************************************************************************)
VARIABLES
    active_files_,     \* FlowManager::active_files_: name -> FlowFile
    next_flow_id_,     \* FlowManager::next_flow_id_
    fm_running_,       \* FlowManager::running_ (the discovery thread's flag)
    active_streams_,   \* NetworkFlow::active_streams_: a vector of streams
    flow_patterns_,    \* NetworkFlow::flow_patterns_: id -> pattern
    nf_running_,       \* NetworkFlow::running_ (the scheduler's flag)
    raw_socket_,       \* NetworkFlow::raw_socket_: -1, or a descriptor
    patterns_mutex_,   \* the thread that holds NetworkFlow::patterns_mutex_
    streams_mutex_,    \* the thread that holds NetworkFlow::streams_mutex_
    worker,            \* where the circulation thread is; none before it starts
    live_workers,      \* the circulation threads started and not yet joined
    discovery,         \* where the discovery thread is; none before it starts
    hb,                \* the circulation thread inside maintain_flow_pattern:
                       \* the pattern id it is at, and the heartbeat it built
    process,           \* running, or terminated (std::terminate was called)
    now,               \* the clock, microseconds
    fg,                \* where the foreground (command) thread is
    issued,            \* the ids generate_flow_id has returned, in order
    call,              \* the call that returned last, with what it returned
    wire               \* the frames written to the socket and not yet received:
                       \* those on their way to this node, and to its peer

vars == <<active_files_, next_flow_id_, fm_running_, active_streams_,
          flow_patterns_, nf_running_, raw_socket_, patterns_mutex_,
          streams_mutex_, worker, live_workers, discovery, hb, process, now,
          fg, issued, call, wire>>

registry_vars == <<active_files_, next_flow_id_, issued>>
engine_vars == <<active_streams_, flow_patterns_, raw_socket_>>
thread_vars == <<fm_running_, nf_running_, patterns_mutex_, streams_mutex_, worker,
                 live_workers, discovery, hb, process>>

\* a std::map with no entry
EmptyMap == [x \in {} |-> 0]

\* the foreground thread between two calls
Idle == [pc |-> "idle"]

\* no frame is on its way
NoFrames == [local |-> <<>>, peer |-> <<>>]

\* the circulation thread outside the heartbeat pass
NoHeartbeat == [id |-> 0, packet |-> <<>>]

\* FlowManager::FlowManager, NetworkFlow::NetworkFlow
Init ==
    /\ active_files_ = EmptyMap
    /\ next_flow_id_ = 1
    /\ fm_running_ = FALSE
    /\ active_streams_ = <<>>
    /\ flow_patterns_ = EmptyMap
    /\ nf_running_ = FALSE
    /\ raw_socket_ = -1
    /\ patterns_mutex_ = "free"
    /\ streams_mutex_ = "free"
    /\ worker = "none"
    /\ live_workers = 0
    /\ discovery = "none"
    /\ hb = NoHeartbeat
    /\ process = "running"
    /\ now = 0
    /\ fg = Idle
    /\ issued = <<>>
    /\ call = [op |-> "construct", path |-> "returned", ret |-> 0, notified |-> 0]
    /\ wire = NoFrames

\* the foreground thread can start a call
ForegroundReady == process = "running" /\ fg.pc = "idle"

\* a std::map without key k
MapErase(m, k) == [x \in DOMAIN m \ {k} |-> m[x]]

\* a std::map after m[k] = v
MapPut(m, k, v) == [x \in DOMAIN m \cup {k} |-> IF x = k THEN v ELSE m[x]]

\* a faulty generate_flow_id that never advances the counter; C4 rules it out
GenerateFlowIdStuck(cur) == cur

\* FlowManager::generate_flow_id: the value of next_flow_id_ after the call
\* (the call returns the value before).  The counter is 64 bits wide and
\* is driven to MaxFlowId + 1 at most, so it never wraps here
GenerateFlowIdNext(cur) == cur + 1

\* FlowManager::connect_to_flow
connect_to_flow(name) == FALSE

\* a faulty open_flow pattern that is not sustained; C5 rules it out
OpenFlowPatternUnsustained(flow_id, name) ==
    [DefaultCirculationPattern EXCEPT !.id = flow_id, !.name = name,
                                      !.circulation_rate = 10,
                                      !.auto_sustain = FALSE]

\* the pattern open_flow builds for a new flow
OpenFlowPattern(flow_id, name) ==
    [DefaultCirculationPattern EXCEPT !.id = flow_id, !.name = name,
                                      !.circulation_rate = 10,
                                      !.auto_sustain = TRUE]

\* the FlowFile open_flow builds for a new flow
OpenFlowFile(flow_id, name) ==
    UpdateCirculationPattern(FlowFile(flow_id, name), OpenFlowPattern(flow_id, name))

\* a faulty lookup that never finds the open flow; C2 rules it out
OpenFlowNeverFindsExisting(files, name) == FALSE

\* open_flow's lookup of a flow that is already open
OpenFlowFindsExisting(files, name) == name \in DOMAIN files

\* a faulty add_circulation_pattern that keeps the pattern already stored
\* under the id (std::map::insert); C11 rules it out
AddCirculationPatternKeeps(patterns, pattern) ==
    IF pattern.id \in DOMAIN patterns THEN patterns
    ELSE MapPut(patterns, pattern.id, pattern)

\* NetworkFlow::add_circulation_pattern, remove_circulation_pattern
AddCirculationPattern(patterns, pattern) == MapPut(patterns, pattern.id, pattern)
RemoveCirculationPattern(patterns, id) == MapErase(patterns, id)

\* NetworkFlow::get_pattern: the pattern, or "nullptr"
GetPattern(patterns, id) ==
    IF id \in DOMAIN patterns THEN patterns[id] ELSE "nullptr"

\* a thread that calls lock() on patterns_mutex_ goes on only when no other
\* thread holds it
PatternsLockFree == patterns_mutex_ = "free"

\* FlowManager::open_flow(flow_name)
open_flow(flow_name) ==
    /\ ForegroundReady
    /\ IF ~validate_flow_name(flow_name)
       THEN /\ call' = [op |-> "open_flow", path |-> "invalid", ret |-> 0, notified |-> 0]
            /\ UNCHANGED <<registry_vars, engine_vars, thread_vars, now, wire, fg>>
       ELSE IF OpenFlowFindsExisting(active_files_, flow_name)
       THEN /\ call' = [op |-> "open_flow", path |-> "existing",
                        ret |-> active_files_[flow_name].identifier,
                        notified |-> 0]
            /\ UNCHANGED <<registry_vars, engine_vars, thread_vars, now, wire, fg>>
       ELSE /\ ~connect_to_flow(flow_name)
            /\ next_flow_id_ <= MaxFlowId
            /\ LET flow_id == next_flow_id_
               IN /\ next_flow_id_' = GenerateFlowIdNext(next_flow_id_)
                  /\ issued' = Append(issued, flow_id)
                  /\ IF PatternsLockFree
                     THEN /\ flow_patterns_' =
                                AddCirculationPattern(flow_patterns_,
                                                      OpenFlowPattern(flow_id, flow_name))
                          /\ active_files_' =
                                MapPut(active_files_, flow_name,
                                       OpenFlowFile(flow_id, flow_name))
                          /\ call' = [op |-> "open_flow", path |-> "created",
                                      ret |-> flow_id, notified |-> 0]
                          /\ UNCHANGED fg
                     ELSE \* add_circulation_pattern waits for the lock
                          /\ fg' = [pc |-> "blocked"]
                          /\ UNCHANGED <<flow_patterns_, active_files_, call>>
            /\ UNCHANGED <<active_streams_, raw_socket_, thread_vars, now, wire>>

\* FlowManager::close_flow(flow_name)
close_flow(flow_name) ==
    /\ ForegroundReady
    /\ IF flow_name \in DOMAIN active_files_
       THEN LET flow_id == active_files_[flow_name].identifier
            IN IF PatternsLockFree
               THEN /\ flow_patterns_' = RemoveCirculationPattern(flow_patterns_, flow_id)
                    /\ active_streams_' = RemoveStream(active_streams_, flow_id)
                    /\ active_files_' = MapErase(active_files_, flow_name)
                    /\ call' = [op |-> "close_flow", path |-> "closed", ret |-> 0,
                                notified |-> 0]
                    /\ UNCHANGED fg
               ELSE \* remove_circulation_pattern waits for the lock
                    /\ fg' = [pc |-> "blocked"]
                    /\ UNCHANGED <<flow_patterns_, active_streams_, active_files_, call>>
       ELSE /\ call' = [op |-> "close_flow", path |-> "not_open", ret |-> 0,
                        notified |-> 0]
            /\ UNCHANGED <<flow_patterns_, active_streams_, active_files_, fg>>
    /\ UNCHANGED <<next_flow_id_, issued, raw_socket_, thread_vars, now, wire>>

\* the pattern create_circulation_pattern builds
CreatedPattern(flow_id, name) ==
    [DefaultCirculationPattern EXCEPT !.id = flow_id, !.name = name,
                                      !.circulation_rate = 5,
                                      !.auto_sustain = TRUE]

\* FlowManager::create_circulation_pattern(name)
create_circulation_pattern(name) ==
    /\ ForegroundReady
    /\ next_flow_id_ <= MaxFlowId
    /\ LET flow_id == next_flow_id_
       IN /\ next_flow_id_' = GenerateFlowIdNext(next_flow_id_)
          /\ issued' = Append(issued, flow_id)
          /\ IF PatternsLockFree
             THEN /\ flow_patterns_' =
                        AddCirculationPattern(flow_patterns_, CreatedPattern(flow_id, name))
                  /\ call' = [op |-> "create_circulation_pattern", path |-> "created",
                              ret |-> 0, notified |-> 0]
                  /\ UNCHANGED fg
             ELSE /\ fg' = [pc |-> "blocked"]
                  /\ UNCHANGED <<flow_patterns_, call>>
    /\ UNCHANGED <<active_files_, active_streams_, raw_socket_, thread_vars, now, wire>>


(***************************************************************************)
(* NetworkFlow: the public calls and the scheduler thread.                 *)
(***************************************************************************)
\* NetworkFlow::send_raw_packet: without a socket nothing is written and
\* the call returns false; with one, send() writes the whole frame or not
SendRawPacket(socket, send_ok) == IF socket < 0 THEN FALSE ELSE send_ok

\* NetworkFlow::inject_packet(packet); send_ok is what send() will do
inject_packet(packet, send_ok) ==
    /\ ForegroundReady
    /\ \E streams \in InjectInto(active_streams_, packet) :
          active_streams_' = streams
    /\ call' = [op |-> "inject_packet", path |-> "returned",
                ret |-> SendRawPacket(raw_socket_, send_ok), notified |-> 0]
    /\ UNCHANGED <<registry_vars, flow_patterns_, raw_socket_, thread_vars, now, wire, fg>>

\* NetworkFlow::add_stream(flow_id)
add_stream(flow_id) ==
    /\ ForegroundReady
    /\ active_streams_' = AddStream(active_streams_, flow_id)
    /\ call' = [op |-> "add_stream", path |-> "returned", ret |-> 0, notified |-> 0]
    /\ UNCHANGED <<registry_vars, flow_patterns_, raw_socket_, thread_vars, now, wire, fg>>

\* NetworkFlow::remove_stream(flow_id)
remove_stream(flow_id) ==
    /\ ForegroundReady
    /\ active_streams_' = RemoveStream(active_streams_, flow_id)
    /\ call' = [op |-> "remove_stream", path |-> "returned", ret |-> 0, notified |-> 0]
    /\ UNCHANGED <<registry_vars, flow_patterns_, raw_socket_, thread_vars, now, wire, fg>>

\* FlowManager::sustain_all_flows: the files and the streams it leaves
SustainAllFiles(files) == [n \in DOMAIN files |-> MaintainFlow(files[n])]

\* FlowManager::sustain_all_flows(), called by the foreground thread
sustain_all_flows ==
    /\ ForegroundReady
    /\ active_files_' = SustainAllFiles(active_files_)
    /\ active_streams_' = SustainCirculation(active_streams_, now)
    /\ call' = [op |-> "sustain_all_flows", path |-> "returned", ret |-> 0,
                notified |-> 0]
    /\ UNCHANGED <<next_flow_id_, issued, flow_patterns_, raw_socket_, thread_vars,
                   now, wire, fg>>

\* a faulty start_circulation that starts a thread whatever running_ is; C12
\* rules it out
StartCirculationAlways(running) == TRUE

\* NetworkFlow::start_circulation: a thread is started iff running_ is false
StartCirculationStarts(running) == ~running

\* the outcomes of NetworkFlow::initialize_interface: socket(), ioctl() or
\* bind() fails, or all three succeed
InterfaceOutcomes == {"socket_fails", "ioctl_fails", "bind_fails", "ok"}

\* a faulty initialize_interface that closes the socket after a failed
\* ioctl() or bind() and keeps its number; C26 rules it out
InitializeInterfaceSocketKept(outcome) == IF outcome = "socket_fails" THEN -1 ELSE 3

\* NetworkFlow::initialize_interface: the raw_socket_ it leaves
InitializeInterfaceSocket(outcome) == IF outcome = "ok" THEN 3 ELSE -1

\* FlowManager::initialize_network(interface)
initialize_network(interface, outcome) ==
    /\ ForegroundReady
    /\ raw_socket_' = InitializeInterfaceSocket(outcome)
    /\ IF outcome = "ok"
       THEN \* start_circulation
            /\ IF StartCirculationStarts(nf_running_)
               THEN /\ nf_running_' = TRUE
                    /\ worker' = "running"
                    /\ live_workers' = live_workers + 1
               ELSE UNCHANGED <<nf_running_, worker, live_workers>>
            /\ fm_running_' = TRUE
            /\ discovery' = "running"
            \* discovery_thread_ = std::thread(...): assigning to a thread
            \* that is joinable calls std::terminate
            /\ process' = IF fm_running_ THEN "terminated" ELSE process
       ELSE UNCHANGED <<nf_running_, worker, live_workers, fm_running_, discovery,
                        process>>
    /\ call' = [op |-> "initialize_network", path |-> outcome,
                ret |-> (outcome = "ok"), notified |-> 0]
    /\ UNCHANGED <<registry_vars, active_streams_, flow_patterns_, patterns_mutex_,
                   streams_mutex_, hb, now, wire, fg>>

\* what a second lock() of patterns_mutex_ by the thread that holds it does:
\* undefined behaviour; the thread waits for itself forever, or the lock
\* reports the deadlock with an exception that ends the process.  (The
\* outcome in which the second lock() returns is followed step by step by
\* worker_relock, under AllRelockOutcomes.)
RelockOutcomes == {"deadlock", "terminate"}

\* NetworkFlow::circulation_worker, one round of the loop:
\* sustain_circulation, then the pass over flow_patterns_ under
\* patterns_mutex_, in which maintain_flow_pattern calls get_pattern, which
\* locks patterns_mutex_ again
circulation_worker ==
    /\ process = "running"
    /\ worker = "running"
    /\ nf_running_
    /\ PatternsLockFree
    /\ active_streams_' = SustainCirculation(active_streams_, now)
    /\ IF \E id \in DOMAIN flow_patterns_ : flow_patterns_[id].auto_sustain
       THEN \E outcome \in RelockOutcomes :
               IF outcome = "deadlock"
               THEN /\ worker' = "deadlocked"
                    /\ patterns_mutex_' = "worker"
                    /\ UNCHANGED process
               ELSE /\ process' = "terminated"
                    /\ UNCHANGED <<worker, patterns_mutex_>>
       ELSE UNCHANGED <<worker, patterns_mutex_, process>>
    /\ UNCHANGED <<registry_vars, flow_patterns_, raw_socket_, fm_running_,
                   nf_running_, streams_mutex_, hb, live_workers, discovery, now, wire, fg,
                   call>>

\* FlowManager::discovery_worker, one round of the loop:
\* discover_network_topology (topology_ is read by nothing and is left out
\* of the state), then maintain_flow_circulation
discovery_worker ==
    /\ process = "running"
    /\ fm_running_
    /\ active_files_' = SustainAllFiles(active_files_)
    /\ active_streams_' = SustainCirculation(active_streams_, now)
    /\ UNCHANGED <<next_flow_id_, issued, flow_patterns_, raw_socket_, thread_vars,
                   now, wire, fg, call>>


(***************************************************************************)
(* The calls the environment makes.                                        *)
(***************************************************************************)
FlowIds == 1..MaxFlowId

\* the engine has room for one more stream
StreamRoom == Len(active_streams_) < MaxStreams

\* the streams of packet's flow have room for one more packet, and the
\* engine has room for the stream inject_packet may have to create
PacketRoom(packet) ==
    /\ StreamRoom \/ GetStream(active_streams_, packet.flow_id) # 0
    /\ \A i \in 1..Len(active_streams_) :
          active_streams_[i].flow_id = packet.flow_id =>
             Len(active_streams_[i].packets) < MaxPackets

\* no stream holds a packet with packet's flow id and sequence number
NotHeld(packet) ==
    \A i \in 1..Len(active_streams_) :
       \A j \in 1..Len(active_streams_[i].packets) :
          \/ active_streams_[i].packets[j].flow_id # packet.flow_id
          \/ active_streams_[i].packets[j].sequence # packet.sequence

\* the names the registry is called with: two valid ones, the empty name
\* and one with a hostile character
RegistryNames == {<<"a">>, <<"a", "a">>, <<>>, <<"a", "/">>}

\* the names create_circulation_pattern is called with
PatternNames == {<<"a">>}

\* the packets the registry's flows are fed: one DATA packet for each flow
\* id, as the constructor builds it at the current time (sequence 0)
RegistryPackets == {RawPacket(id, FLOW_DATA, <<120>>, now) : id \in FlowIds}

\* the registry with the engine behind it and the two background threads
Next ==
    \/ \E n \in RegistryNames : open_flow(n)
    \/ \E n \in RegistryNames : close_flow(n)
    \/ \E n \in PatternNames : create_circulation_pattern(n)
    \/ \E p \in RegistryPackets : \E send_ok \in BOOLEAN :
          NotHeld(p) /\ inject_packet(p, send_ok)
    \/ sustain_all_flows
    \/ \E outcome \in InterfaceOutcomes : initialize_network(<<"e">>, outcome)
    \/ circulation_worker
    \/ discovery_worker

Spec == Init /\ [][Next]_vars


(***************************************************************************)
(* Properties of the registry (specification Spec).                        *)
(***************************************************************************)
\* the ids of the open FlowFiles
OpenIds == {active_files_[n].identifier : n \in DOMAIN active_files_}

\* the ids the engine holds a stream for
StreamIds == {active_streams_[i].flow_id : i \in 1..Len(active_streams_)}

\* the streams of flow id, in the order the engine holds them
StreamsOf(streams, id) == SelectSeq(streams, LAMBDA st : st.flow_id = id)

\* C1: in every reachable state, for every flow id, a FlowFile with that id
\* is open in the registry iff the engine holds a pattern for the id iff the
\* engine holds a stream for the id.
C1_LifecycleTriple ==
    \A id \in OpenIds \cup DOMAIN flow_patterns_ \cup StreamIds :
        /\ (id \in OpenIds) <=> (id \in DOMAIN flow_patterns_)
        /\ (id \in DOMAIN flow_patterns_) <=> (id \in StreamIds)

\* C2: open_flow of a name that is open returns the identifier of the
\* FlowFile stored under that name and changes nothing: no id is consumed,
\* no pattern added or replaced, no file or stream touched.
C2_OpenFlowIdempotent ==
    [][\A n \in RegistryNames :
          (open_flow(n) /\ n \in DOMAIN active_files_) =>
             /\ call'.ret = active_files_[n].identifier
             /\ call'.ret # 0
             /\ active_files_' = active_files_
             /\ next_flow_id_' = next_flow_id_
             /\ issued' = issued
             /\ flow_patterns_' = flow_patterns_
             /\ active_streams_' = active_streams_]_vars

\* C2's case: open_flow has just returned a flow that was already open,
\* with another id handed out since
C2_Witness ==
    /\ call.op = "open_flow"
    /\ call.path = "existing"
    /\ call.ret \in OpenIds
    /\ next_flow_id_ > call.ret + 1

\* C4: the ids generate_flow_id hands out are 1, 2, 3, ... in this order, so
\* none is handed out twice; open flows have pairwise different ids, every
\* pattern is stored under its own id, and a pattern made by
\* create_circulation_pattern shares its id with no flow.
C4_FlowIdsUnique ==
    /\ \A i \in 1..Len(issued) : issued[i] = i
    /\ next_flow_id_ = Len(issued) + 1
    /\ \A n \in DOMAIN active_files_ : \A m \in DOMAIN active_files_ :
          n # m => active_files_[n].identifier # active_files_[m].identifier
    /\ \A n \in DOMAIN active_files_ :
          active_files_[n].identifier \in 1..Len(issued)
    /\ \A id \in DOMAIN flow_patterns_ :
          /\ flow_patterns_[id].id = id
          /\ id \in 1..Len(issued)
          /\ flow_patterns_[id].circulation_rate = 5 => id \notin OpenIds

\* C4's case: a second id was handed out to a flow after the holder of the
\* first id was closed
C4_Witness ==
    /\ Len(issued) >= 2
    /\ call.op = "open_flow"
    /\ call.path = "created"
    /\ call.ret = 2
    /\ OpenIds = {2}
    /\ 1 \notin DOMAIN flow_patterns_

C6_CloseFlowFrame ==
    [][\A n \in RegistryNames :
          (close_flow(n) /\ fg'.pc = "idle") =>
             IF n \in DOMAIN active_files_
             THEN LET id == active_files_[n].identifier
                  IN /\ id \notin DOMAIN flow_patterns_'
                     /\ GetStream(active_streams_', id) = 0
                     /\ DOMAIN active_files_' = DOMAIN active_files_ \ {n}
                     /\ \A m \in DOMAIN active_files_' :
                           active_files_'[m] = active_files_[m]
                     /\ DOMAIN flow_patterns_' = DOMAIN flow_patterns_ \ {id}
                     /\ \A j \in DOMAIN flow_patterns_' :
                           flow_patterns_'[j] = flow_patterns_[j]
                     /\ \A j \in (StreamIds \ {id}) :
                           StreamsOf(active_streams_', j) = StreamsOf(active_streams_, j)
                     /\ next_flow_id_' = next_flow_id_
             ELSE /\ active_files_' = active_files_
                  /\ flow_patterns_' = flow_patterns_
                  /\ active_streams_' = active_streams_
                  /\ next_flow_id_' = next_flow_id_]_vars

\* C6's case: close_flow has just closed a flow while another flow, with a
\* packet in its stream, stays open
C6_Witness ==
    /\ call.op = "close_flow"
    /\ call.path = "closed"
    /\ \E n \in DOMAIN active_files_ :
          LET idx == GetStream(active_streams_, active_files_[n].identifier)
          IN idx # 0 /\ Len(active_streams_[idx].packets) > 0

\* C7: the FlowFile open_flow has just created is not modified.
C7_NewFlowUnmodified ==
    [][\A n \in RegistryNames :
          (open_flow(n) /\ n \notin DOMAIN active_files_
              /\ n \in DOMAIN active_files_') =>
             ~active_files_'[n].is_modified]_vars


(***************************************************************************)
(* The registry called with every name up to MaxNameLen characters         *)
(* (specification SpecNames).                                              *)
(***************************************************************************)
NamesNext ==
    \/ \E n \in AllNames : open_flow(n)
    \/ \E n \in ValidNames \cup {<<>>} : close_flow(n)
    \/ \E outcome \in InterfaceOutcomes \ {"ok"} : initialize_network(<<"e">>, outcome)
    \/ sustain_all_flows

SpecNames == Init /\ [][NamesNext]_vars

\* the nine characters of C3
PathHostile == {"/", "\\", ":", "*", "?", "\"", "<", ">", "|"}

\* C3: open_flow of the empty name, or of a name with a slash, backslash,
\* colon, asterisk, question mark, double quote, less-than, greater-than or
\* pipe in it, returns null and changes nothing: no FlowFile stored, no
\* pattern registered, no id consumed.  (Every step either is an open_flow
\* that returns null and changes none of these, or is no open_flow of such a
\* name.)
C3_OpenFlowRejects ==
    [][\/ /\ call'.op = "open_flow"
          /\ call'.ret = 0
          /\ active_files_' = active_files_
          /\ flow_patterns_' = flow_patterns_
          /\ active_streams_' = active_streams_
          /\ next_flow_id_' = next_flow_id_
          /\ issued' = issued
       \/ \A n \in AllNames :
             (Len(n) = 0 \/ \E i \in 1..Len(n) : n[i] \in PathHostile) =>
                ~open_flow(n)]_vars

\* C3's case: open_flow has just rejected a name while a flow is open
C3_Witness ==
    /\ call.op = "open_flow"
    /\ call.path = "invalid"
    /\ call.ret = 0
    /\ DOMAIN active_files_ # {}
    /\ next_flow_id_ = 2


(***************************************************************************)
(* The engine called directly: inject_packet, add_stream, remove_stream,   *)
(* with and without a socket (specification SpecEngine).                   *)
(***************************************************************************)
\* the flow ids the engine is called with
EngineIds == {1, 2}

\* the packets the engine is fed: built by the constructor, then given a
\* sequence number
EnginePackets ==
    {SetSequence(RawPacket(id, FLOW_DATA, <<120>>, now), seq) :
        id \in EngineIds, seq \in 0..MaxSeq}

EngineNext ==
    \/ \E p \in EnginePackets : \E send_ok \in BOOLEAN :
          PacketRoom(p) /\ inject_packet(p, send_ok)
    \/ \E id \in EngineIds : StreamRoom /\ add_stream(id)
    \/ \E id \in EngineIds : remove_stream(id)
    \/ \E outcome \in InterfaceOutcomes : initialize_network(<<"e">>, outcome)

SpecEngine == Init /\ [][EngineNext]_vars

\* C10: when inject_packet(p) returns, the engine holds exactly one stream of
\* p's flow id and that stream holds p, whatever send_raw_packet did (no
\* socket, a failed send, a successful send).
C10_InjectOneStream ==
    [][\A p \in EnginePackets : \A send_ok \in BOOLEAN :
          inject_packet(p, send_ok) =>
             /\ Len(StreamsOf(active_streams_', p.flow_id)) = 1
             /\ \E j \in 1..Len(StreamsOf(active_streams_', p.flow_id)[1].packets) :
                   StreamsOf(active_streams_', p.flow_id)[1].packets[j] = p]_vars


(***************************************************************************)
(* FlowFile: the calls made through the FlowFile* that open_flow returned. *)
(***************************************************************************)
\* a call that replaces content_ of the open flow flow_name, sets
\* is_modified_ and runs notify_content_change
MutateFile(flow_name, op, content) ==
    /\ ForegroundReady
    /\ flow_name \in DOMAIN active_files_
    /\ call' = [op |-> op, path |-> "mutated", ret |-> 0,
                notified |-> NotifyContentChange(active_files_[flow_name])]
    /\ active_files_' =
          [active_files_ EXCEPT ![flow_name] = FileMutated(@, content)]
    /\ UNCHANGED <<next_flow_id_, issued, engine_vars, thread_vars, now, wire, fg>>

\* a call on the open flow flow_name that finds its line argument out of
\* range and does nothing
LeaveFile(flow_name, op) ==
    /\ ForegroundReady
    /\ flow_name \in DOMAIN active_files_
    /\ call' = [op |-> op, path |-> "out_of_range", ret |-> 0, notified |-> 0]
    /\ UNCHANGED <<registry_vars, engine_vars, thread_vars, now, wire, fg>>

\* FlowFile::set_content_change_callback, as FlowEditor::open_flow calls it
set_content_change_callback(flow_name) ==
    /\ ForegroundReady
    /\ flow_name \in DOMAIN active_files_
    /\ active_files_' = [active_files_ EXCEPT ![flow_name].has_callback = TRUE]
    /\ call' = [op |-> "set_content_change_callback", path |-> "returned",
                ret |-> 0, notified |-> 0]
    /\ UNCHANGED <<next_flow_id_, issued, engine_vars, thread_vars, now, wire, fg>>

\* FlowFile::write_to_flow(data)
write_to_flow(flow_name, data) == MutateFile(flow_name, "write_to_flow", data)

\* FlowFile::append_content(line)
append_content(flow_name, line) ==
    /\ flow_name \in DOMAIN active_files_
    /\ MutateFile(flow_name, "append_content",
                  AppendContent(active_files_[flow_name].content, line))

\* FlowFile::delete_content(start_line, end_line)
delete_content(flow_name, start_line, end_line) ==
    /\ flow_name \in DOMAIN active_files_
    /\ IF DeleteInRange(active_files_[flow_name].content, start_line, end_line)
       THEN MutateFile(flow_name, "delete_content",
                       DeleteContent(active_files_[flow_name].content,
                                     start_line, end_line))
       ELSE LeaveFile(flow_name, "delete_content")

\* FlowFile::insert_content(line, content)
insert_content(flow_name, line, content) ==
    /\ flow_name \in DOMAIN active_files_
    /\ IF InsertInRange(active_files_[flow_name].content, line)
       THEN MutateFile(flow_name, "insert_content",
                       InsertContent(active_files_[flow_name].content, line, content))
       ELSE LeaveFile(flow_name, "insert_content")

\* FlowFile::deserialize_content(data)
deserialize_content(flow_name, data) ==
    /\ MutateFile(flow_name, "deserialize_content", DeserializeContent(data))

\* FlowFile::substitute_content(pattern, replacement): with a pattern that
\* is not empty the loop ends and the call returns; with the empty pattern
\* find succeeds at every pos, and the foreground thread stays in the loop
substitute_content(flow_name, pattern, replacement) ==
    /\ flow_name \in DOMAIN active_files_
    /\ IF Len(pattern) # 0
       THEN MutateFile(flow_name, "substitute_content",
                       SubstituteFrom(active_files_[flow_name].content,
                                      pattern, replacement, 0))
       ELSE /\ ForegroundReady
            /\ fg' = [pc |-> "substitute_content", name |-> flow_name,
                      replacement |-> replacement, pos |-> 0]
            /\ UNCHANGED <<registry_vars, engine_vars, thread_vars, now, wire, call>>

\* one round of the loop of substitute_content for the empty pattern
substitute_round ==
    /\ process = "running"
    /\ fg.pc = "substitute_content"
    /\ LET c == active_files_[fg.name].content
           at == Find(c, <<>>, fg.pos)
       IN /\ at # -1
          /\ Len(c) + Len(fg.replacement) <= MaxContent
          /\ active_files_' =
                [active_files_ EXCEPT
                    ![fg.name].content = Replace(c, at, 0, fg.replacement)]
          /\ fg' = [fg EXCEPT !.pos = at + Len(fg.replacement)]
    /\ UNCHANGED <<next_flow_id_, issued, engine_vars, thread_vars, now, wire, call>>

\* FlowFile::maintain_flow, as FlowEditor::write_pattern_changes calls it;
\* encode_content_in_packets builds the packets and drops them
maintain_flow(flow_name) ==
    /\ ForegroundReady
    /\ flow_name \in DOMAIN active_files_
    /\ active_files_' =
          [active_files_ EXCEPT ![flow_name] = MaintainFlow(@)]
    /\ call' = [op |-> "maintain_flow", path |-> "returned", ret |-> 0,
                notified |-> 0]
    /\ UNCHANGED <<next_flow_id_, issued, engine_vars, thread_vars, now, wire, fg>>

\* FlowManager::handle_topology_change: update_circulation_pattern on every
\* open flow with the pattern it has
handle_topology_change ==
    /\ ForegroundReady
    /\ active_files_' =
          [n \in DOMAIN active_files_ |->
              UpdateCirculationPattern(active_files_[n], active_files_[n].pattern)]
    /\ call' = [op |-> "handle_topology_change", path |-> "returned", ret |-> 0,
                notified |-> 0]
    /\ UNCHANGED <<next_flow_id_, issued, engine_vars, thread_vars, now, wire, fg>>


(***************************************************************************)
(* One flow edited through its FlowFile, maintained by the editor's write  *)
(* and by sustain_all_flows (specification SpecContent).                   *)
(***************************************************************************)
ContentNames == {<<"a">>}

\* the strings content_ is set to, and the lines, texts, patterns and
\* replacements the mutators are called with
Contents == SeqsUpTo(ContentChars, MaxContent)
Lines == SeqsUpTo(ContentChars, 1)

\* the line numbers delete_content and insert_content are called with
LineNumbers == (0 - 1)..MaxContent

\* the step leaves flow_name with a content_ of MaxContent chars at most
Fits(flow_name) == Len(active_files_'[flow_name].content) <= MaxContent

\* the flow opened and edited, with its maintenance
EditNext ==
    \/ \E n \in ContentNames : open_flow(n)
    \/ \E n \in ContentNames : set_content_change_callback(n)
    \/ \E n \in ContentNames : \E data \in Contents : write_to_flow(n, data)
    \/ \E n \in ContentNames : \E line \in Lines :
          append_content(n, line) /\ Fits(n)
    \/ \E n \in ContentNames : \E start_line \in LineNumbers :
          \E end_line \in LineNumbers : delete_content(n, start_line, end_line)
    \/ \E n \in ContentNames : \E line \in LineNumbers : \E text \in Lines :
          insert_content(n, line, text) /\ Fits(n)
    \/ \E n \in ContentNames : \E pattern \in Lines : \E replacement \in Lines :
          substitute_content(n, pattern, replacement) /\ Fits(n)
    \/ \E n \in ContentNames : \E c \in Contents :
          deserialize_content(n, SerializeContent(c))
    \/ substitute_round
    \/ \E n \in ContentNames : maintain_flow(n)
    \/ sustain_all_flows
    \/ handle_topology_change
    \/ \E outcome \in InterfaceOutcomes : initialize_network(<<"e">>, outcome)
    \/ circulation_worker
    \/ discovery_worker

SpecEdit == Init /\ [][EditNext]_vars

\* the same, with the flow closed and opened again and packets injected
\* into the engine
ContentNext ==
    \/ EditNext
    \/ \E n \in ContentNames : close_flow(n)
    \/ \E p \in RegistryPackets : \E send_ok \in BOOLEAN :
          NotHeld(p) /\ inject_packet(p, send_ok)

SpecContent == Init /\ [][ContentNext]_vars

\* the step is a content mutation of the open flow n that returns:
\* append_content, write_to_flow, deserialize_content, substitute_content,
\* or delete_content or insert_content with a line argument in range
ContentMutation(n) ==
    /\ n \in DOMAIN active_files_
    /\ \/ \E data \in Contents : write_to_flow(n, data)
       \/ \E line \in Lines : append_content(n, line)
       \/ \E c \in Contents : deserialize_content(n, SerializeContent(c))
       \/ \E pattern \in Lines : \E replacement \in Lines :
             substitute_content(n, pattern, replacement) /\ fg'.pc = "idle"
       \/ \E start_line \in LineNumbers : \E end_line \in LineNumbers :
             /\ DeleteInRange(active_files_[n].content, start_line, end_line)
             /\ delete_content(n, start_line, end_line)
       \/ \E line \in LineNumbers : \E text \in Lines :
             /\ InsertInRange(active_files_[n].content, line)
             /\ insert_content(n, line, text)

\* C8: a content mutation of an open flow that returns leaves is_modified
\* true and has invoked the content-change callback once (the callback the
\* flow has; none is invoked when none is set); maintain_flow, run by the
\* editor's write, by sustain_all_flows or by the discovery thread's
\* maintenance, leaves is_modified false; and no step but these turns
\* is_modified from true to false.  (The first part reads: every step leaves
\* the flow modified with the callback invoked once, or is no content
\* mutation of the flow.)
C8_ModifiedFlag ==
    [][\A n \in ContentNames :
          /\ \/ /\ n \in DOMAIN active_files_
                /\ n \in DOMAIN active_files_'
                /\ active_files_'[n].is_modified
                /\ call'.notified = IF active_files_[n].has_callback THEN 1 ELSE 0
             \/ ~ContentMutation(n)
          /\ maintain_flow(n) => ~active_files_'[n].is_modified
          /\ ((sustain_all_flows \/ discovery_worker) /\ n \in DOMAIN active_files_) =>
                ~active_files_'[n].is_modified
          /\ (/\ n \in DOMAIN active_files_
              /\ n \in DOMAIN active_files_'
              /\ active_files_[n].is_modified
              /\ ~active_files_'[n].is_modified) =>
                (maintain_flow(n) \/ sustain_all_flows \/ discovery_worker)]_vars

\* C8's case: a mutation has just returned, with the callback invoked, on a
\* flow with content
C8_Witness ==
    /\ call.path = "mutated"
    /\ call.notified = 1
    /\ <<"a">> \in DOMAIN active_files_
    /\ active_files_[<<"a">>].is_modified
    /\ active_files_[<<"a">>].has_callback
    /\ Len(active_files_[<<"a">>].content) = MaxContent

\* the payloads of packets ps, one after the other
RECURSIVE ConcatPayloads(_)
ConcatPayloads(ps) ==
    IF Len(ps) = 0 THEN <<>> ELSE Head(ps).payload \o ConcatPayloads(Tail(ps))

\* the stream of the open flow n holds the content of n: at least one DATA
\* packet of n's id, sequence numbers ascending, payloads adding up to the
\* content
ContentInStream(files, streams, n) ==
    LET id == files[n].identifier
        held == StreamsOf(streams, id)
    IN /\ Len(held) >= 1
       /\ LET data == SelectSeq(held[1].packets,
                                LAMBDA q : q.packet_type = FLOW_DATA /\ q.flow_id = id)
          IN /\ Len(data) >= 1
             /\ \A i \in 1..(Len(data) - 1) : data[i].sequence < data[i + 1].sequence
             /\ ConcatPayloads(data) = SerializeContent(files[n].content)

\* C9: after sustain_all_flows, or maintain_flow run by the editor's write,
\* over an open flow with content, the engine's stream of the flow's id holds
\* the content in DATA packets.
C9_MaintenanceEncodes ==
    [][\A n \in ContentNames :
          (/\ sustain_all_flows \/ maintain_flow(n)
           /\ n \in DOMAIN active_files_
           /\ Len(active_files_[n].content) # 0) =>
             ContentInStream(active_files_', active_streams_', n)]_vars


(***************************************************************************)
(* The engine's pattern store, called directly (specification              *)
(* SpecPatterns).                                                          *)
(***************************************************************************)
\* NetworkFlow::add_circulation_pattern(pattern)
add_circulation_pattern(pattern) ==
    /\ ForegroundReady
    /\ IF PatternsLockFree
       THEN /\ call' = [op |-> "add_circulation_pattern", path |-> "returned",
                        ret |-> 0, notified |-> 0]
            /\ flow_patterns_' = AddCirculationPattern(flow_patterns_, pattern)
            /\ UNCHANGED fg
       ELSE /\ fg' = [pc |-> "blocked"]
            /\ UNCHANGED <<flow_patterns_, call>>
    /\ UNCHANGED <<registry_vars, active_streams_, raw_socket_, thread_vars, now, wire>>

\* NetworkFlow::remove_circulation_pattern(id)
remove_circulation_pattern(id) ==
    /\ ForegroundReady
    /\ IF PatternsLockFree
       THEN /\ call' = [op |-> "remove_circulation_pattern", path |-> "returned",
                        ret |-> 0, notified |-> 0]
            /\ flow_patterns_' = RemoveCirculationPattern(flow_patterns_, id)
            /\ UNCHANGED fg
       ELSE /\ fg' = [pc |-> "blocked"]
            /\ UNCHANGED <<flow_patterns_, call>>
    /\ UNCHANGED <<registry_vars, active_streams_, raw_socket_, thread_vars, now, wire>>

\* NetworkFlow::modify_flow_pattern(id, new_pattern): the pattern is stored
\* under id as it is, its own id field included
modify_flow_pattern(id, new_pattern) ==
    /\ ForegroundReady
    /\ IF PatternsLockFree
       THEN /\ call' = [op |-> "modify_flow_pattern", path |-> "returned",
                        ret |-> 0, notified |-> 0]
            /\ flow_patterns_' = MapPut(flow_patterns_, id, new_pattern)
            /\ UNCHANGED fg
       ELSE /\ fg' = [pc |-> "blocked"]
            /\ UNCHANGED <<flow_patterns_, call>>
    /\ UNCHANGED <<registry_vars, active_streams_, raw_socket_, thread_vars, now, wire>>

\* a pattern of flow id as the engine is handed it
EnginePattern(id, name, nodes, rate, age, sustain) ==
    [id |-> id, name |-> name, nodes |-> nodes, circulation_rate |-> rate,
     max_packet_age |-> age, auto_sustain |-> sustain]

\* the patterns the engine is handed: one pattern for each id, and the
\* patterns that differ from it in one field
EnginePatterns ==
    UNION {{EnginePattern(id, <<"a">>, <<>>, 10, MAX_AGE_MICROSECONDS, TRUE),
            EnginePattern(id, <<"b">>, <<>>, 10, MAX_AGE_MICROSECONDS, TRUE),
            EnginePattern(id, <<"a">>, <<<<"n">>>>, 10, MAX_AGE_MICROSECONDS, TRUE),
            EnginePattern(id, <<"a">>, <<>>, 5, MAX_AGE_MICROSECONDS, TRUE),
            EnginePattern(id, <<"a">>, <<>>, 10, 1, TRUE),
            EnginePattern(id, <<"a">>, <<>>, 10, MAX_AGE_MICROSECONDS, FALSE)} :
           id \in EngineIds}

\* the pattern store under add, remove and modify, with the scheduler
PatternsNext ==
    \/ \E p \in EnginePatterns : add_circulation_pattern(p)
    \/ \E id \in EngineIds : remove_circulation_pattern(id)
    \/ \E id \in EngineIds : \E p \in EnginePatterns : modify_flow_pattern(id, p)
    \/ initialize_network(<<"e">>, "ok")
    \/ circulation_worker

SpecPatterns == Init /\ [][PatternsNext]_vars

\* patterns m2 holds under every id but id what m1 holds
SameButAt(m1, m2, id) ==
    /\ DOMAIN m2 \ {id} = DOMAIN m1 \ {id}
    /\ \A j \in DOMAIN m1 \ {id} : m2[j] = m1[j]

\* C11: after add_circulation_pattern(p) has returned, get_pattern(p.id)
\* finds a pattern equal to p in every field; after
\* remove_circulation_pattern(id) has returned, get_pattern(id) finds
\* nothing; and both leave the patterns stored under other ids as they were.
C11_PatternRoundTrip ==
    [][/\ \A p \in EnginePatterns :
             (add_circulation_pattern(p) /\ fg'.pc = "idle") =>
                /\ p.id \in DOMAIN flow_patterns_'
                /\ GetPattern(flow_patterns_', p.id) = p
                /\ SameButAt(flow_patterns_, flow_patterns_', p.id)
       /\ \A id \in EngineIds :
             (remove_circulation_pattern(id) /\ fg'.pc = "idle") =>
                /\ id \notin DOMAIN flow_patterns_'
                /\ GetPattern(flow_patterns_', id) = "nullptr"
                /\ SameButAt(flow_patterns_, flow_patterns_', id)]_vars

\* C11's case: a pattern has just been stored over a different one under
\* its id, next to a pattern under the other id
C11_Witness ==
    /\ call.op = "add_circulation_pattern"
    /\ DOMAIN flow_patterns_ = EngineIds
    /\ flow_patterns_[1].name = <<"b">>
    /\ flow_patterns_[2].id = 1
    /\ ~flow_patterns_[2].auto_sustain


(***************************************************************************)
(* The scheduler thread started and stopped (specifications SpecScheduler  *)
(* and SpecSchedulerFair).                                                 *)
(***************************************************************************)
\* NetworkFlow::initialize_interface(interface), called directly
initialize_interface(interface, outcome) ==
    /\ ForegroundReady
    /\ call' = [op |-> "initialize_interface", path |-> outcome,
                ret |-> (outcome = "ok"), notified |-> 0]
    /\ raw_socket_' = InitializeInterfaceSocket(outcome)
    /\ UNCHANGED <<registry_vars, active_streams_, flow_patterns_, thread_vars, now, wire, fg>>

\* NetworkFlow::close_interface: the raw_socket_ it leaves
CloseInterface(socket) == IF socket >= 0 THEN -1 ELSE socket

\* NetworkFlow::start_circulation()
start_circulation ==
    /\ ForegroundReady
    /\ call' = [op |-> "start_circulation",
                path |-> IF StartCirculationStarts(nf_running_) THEN "started"
                         ELSE "running",
                ret |-> 0, notified |-> 0]
    /\ IF StartCirculationStarts(nf_running_)
       THEN /\ nf_running_' = TRUE
            \* std::thread(...) starts a thread; assigning it to
            \* circulation_thread_ calls std::terminate if that is joinable
            /\ live_workers' = live_workers + 1
            /\ IF worker = "none"
               THEN worker' = "running" /\ UNCHANGED process
               ELSE process' = "terminated" /\ UNCHANGED worker
       ELSE UNCHANGED <<nf_running_, live_workers, worker, process>>
    /\ UNCHANGED <<registry_vars, engine_vars, fm_running_, patterns_mutex_,
                   streams_mutex_, hb, discovery, now, wire, fg>>

\* NetworkFlow::stop_circulation(), up to the join
stop_circulation ==
    /\ ForegroundReady
    /\ IF nf_running_
       THEN /\ nf_running_' = FALSE
            /\ fg' = [pc |-> "join"]
            /\ UNCHANGED call
       ELSE /\ call' = [op |-> "stop_circulation", path |-> "not_running",
                        ret |-> 0, notified |-> 0]
            /\ UNCHANGED <<nf_running_, fg>>
    /\ UNCHANGED <<registry_vars, engine_vars, fm_running_, patterns_mutex_,
                   streams_mutex_, hb, worker, live_workers, discovery, process, now, wire>>

\* circulation_thread_ can be joined: it is not joinable, or its function
\* has returned
Joined == worker \in {"none", "exited"}

\* the circulation thread after join()
JoinWorker ==
    /\ worker' = "none"
    /\ live_workers' = IF worker = "exited" THEN live_workers - 1 ELSE live_workers

\* NetworkFlow::stop_circulation(), the join and the return
stop_circulation_join ==
    /\ process = "running"
    /\ fg.pc = "join"
    /\ Joined
    /\ JoinWorker
    /\ fg' = Idle
    /\ call' = [op |-> "stop_circulation", path |-> "stopped", ret |-> 0,
                notified |-> 0]
    /\ UNCHANGED <<registry_vars, engine_vars, fm_running_, nf_running_,
                   patterns_mutex_, streams_mutex_, hb, discovery, process, now, wire>>

\* NetworkFlow::circulation_worker: the loop's test finds running_ false
\* and the thread's function returns
circulation_worker_exit ==
    /\ process = "running"
    /\ worker = "running"
    /\ ~nf_running_
    /\ worker' = "exited"
    /\ UNCHANGED <<registry_vars, engine_vars, fm_running_, nf_running_,
                   patterns_mutex_, streams_mutex_, hb, live_workers, discovery, process,
                   now, wire, fg, call>>

\* NetworkFlow::~NetworkFlow(), up to the join of stop_circulation; with no
\* scheduler to stop it goes on to close_interface at once
destroy_engine ==
    /\ ForegroundReady
    /\ IF nf_running_
       THEN /\ nf_running_' = FALSE
            /\ fg' = [pc |-> "destroy_join"]
            /\ UNCHANGED <<raw_socket_, call>>
       ELSE /\ raw_socket_' = CloseInterface(raw_socket_)
            /\ fg' = [pc |-> "destroyed"]
            /\ call' = [op |-> "destroy_engine", path |-> "not_running", ret |-> 0,
                        notified |-> 0]
            /\ UNCHANGED nf_running_
    /\ UNCHANGED <<registry_vars, active_streams_, flow_patterns_, fm_running_,
                   patterns_mutex_, streams_mutex_, hb, worker, live_workers, discovery,
                   process, now, wire>>

\* NetworkFlow::~NetworkFlow(), the join of stop_circulation and then
\* close_interface
destroy_engine_join ==
    /\ process = "running"
    /\ fg.pc = "destroy_join"
    /\ Joined
    /\ JoinWorker
    /\ raw_socket_' = CloseInterface(raw_socket_)
    /\ fg' = [pc |-> "destroyed"]
    /\ call' = [op |-> "destroy_engine", path |-> "stopped", ret |-> 0,
                notified |-> 0]
    /\ UNCHANGED <<registry_vars, active_streams_, flow_patterns_, fm_running_,
                   nf_running_, patterns_mutex_, streams_mutex_, hb, discovery, process,
                   now, wire>>

\* the patterns the scheduler runs over: for each id one that is sustained
\* and one that is not
SchedulerPatterns ==
    {EnginePattern(id, <<"a">>, <<>>, 10, MAX_AGE_MICROSECONDS, sustain) :
        id \in EngineIds, sustain \in BOOLEAN}

\* the engine started, stopped and destroyed, with patterns coming and going
SchedulerNext ==
    \/ \E p \in SchedulerPatterns : add_circulation_pattern(p)
    \/ \E id \in EngineIds : remove_circulation_pattern(id)
    \/ \E outcome \in InterfaceOutcomes : initialize_interface(<<"e">>, outcome)
    \/ start_circulation
    \/ stop_circulation
    \/ stop_circulation_join
    \/ circulation_worker
    \/ circulation_worker_exit
    \/ destroy_engine
    \/ destroy_engine_join

SpecScheduler == Init /\ [][SchedulerNext]_vars

\* C12: at most one scheduler thread exists at any time; start_circulation
\* while running starts no thread, stop_circulation while stopped does
\* nothing; when stop_circulation returns after a join no scheduler thread
\* is left and running_ is false; and start_circulation while stopped runs
\* a new worker.
C12_StartStopIdempotent ==
    [][/\ live_workers' <= 1
       /\ (start_circulation /\ nf_running_) =>
             UNCHANGED <<nf_running_, worker, live_workers, process>>
       /\ (start_circulation /\ ~nf_running_) =>
             nf_running_' /\ worker' = "running" /\ live_workers' = 1
       /\ (stop_circulation /\ ~nf_running_) =>
             /\ UNCHANGED <<nf_running_, worker, live_workers, process>>
             /\ fg' = Idle
       /\ stop_circulation_join =>
             ~nf_running_' /\ worker' = "none" /\ live_workers' = 0]_vars

\* C12's case: stop_circulation has returned after joining the scheduler
\* thread that an earlier start_circulation had started
C12_Witness ==
    /\ call.op = "stop_circulation"
    /\ call.path = "stopped"
    /\ worker = "none"
    /\ live_workers = 0
    /\ flow_patterns_ # EmptyMap

\* the scheduler and the joins are threads the operating system runs: a
\* step of theirs that stays possible is taken
SpecSchedulerFair ==
    /\ Init
    /\ [][SchedulerNext]_vars
    /\ WF_vars(circulation_worker)
    /\ WF_vars(circulation_worker_exit)
    /\ WF_vars(stop_circulation_join)
    /\ WF_vars(destroy_engine_join)

\* C13: stop_circulation, and the destruction of the engine, once they wait
\* for the scheduler thread, return.
C13_StopReturns ==
    (fg.pc \in {"join", "destroy_join"}) ~> (fg.pc \in {"idle", "destroyed"})

\* C14: no thread waits for a lock of the engine that is never released: the
\* scheduler never waits for the pattern lock it holds itself, and the
\* foreground thread never waits for a lock held by such a scheduler.
C14_NoLockDeadlock ==
    /\ worker # "deadlocked"
    /\ fg.pc = "blocked" => patterns_mutex_ = "free"


(***************************************************************************)
(* The three threads step by step (specification SpecThreads): the         *)
(* foreground thread's calls, the circulation thread's loop and the        *)
(* discovery thread's loop, each cut where it takes a lock, enters a       *)
(* container or enters send_raw_packet.  A thread at pc X is inside X.     *)
(***************************************************************************)
\* every outcome of a second lock() of patterns_mutex_ by its holder: the
\* two of RelockOutcomes, and the lock() that returns (a build whose
\* std::mutex does not track its owner, as with lock elision)
AllRelockOutcomes == RelockOutcomes \cup {"proceeds"}

\* what the use of a container entry that another thread has changed or
\* destroyed does: undefined behaviour; nothing shows, or the process ends
RaceOutcomes == {"unseen", "crash"}

\* the step of a thread that may have been raced: a crash needs the race
RaceStep(raced, outcome) ==
    /\ outcome = "crash" => raced
    /\ process' = IF outcome = "crash" THEN "terminated" ELSE process

\* the id of the next pattern with auto_sustain after id `after` in
\* flow_patterns_ (a std::map, iterated in key order), or 0
NextSustained(patterns, after) ==
    LET rest == {id \in DOMAIN patterns : id > after /\ patterns[id].auto_sustain}
    IN IF rest = {} THEN 0 ELSE CHOOSE id \in rest : \A other \in rest : id <= other

\* the heartbeat maintain_flow_pattern builds for a stream at time t
Heartbeat(stream, t) ==
    SetSequence(RawPacket(stream.flow_id, FLOW_HEARTBEAT, <<72, 66>>, t),
                stream.next_sequence)

\* PacketStream::next_sequence(): the stream it leaves
NextSequence(stream) == [stream EXCEPT !.next_sequence = U32Inc(@)]

\* a faulty lock_guard that leaves its mutex with the thread that locked
\* it; C27 rules it out
UnlockKeeps(mutex) == mutex

\* ~lock_guard: the mutex, held by the thread that leaves the scope, is
\* free
Unlock(mutex) == "free"

\* circulation_worker: sustain_circulation takes streams_mutex_
worker_sustain_lock ==
    /\ process = "running"
    /\ worker = "running"
    /\ nf_running_
    /\ streams_mutex_ = "free"
    /\ streams_mutex_' = "worker"
    /\ worker' = "sustain"
    /\ UNCHANGED <<registry_vars, engine_vars, fm_running_, nf_running_,
                   patterns_mutex_, live_workers, discovery, hb, process, now, wire, fg, call>>

\* circulation_worker: sustain_circulation under the lock, and the unlock
worker_sustain ==
    /\ process = "running"
    /\ worker = "sustain"
    /\ active_streams_' = SustainCirculation(active_streams_, now)
    /\ streams_mutex_' = Unlock(streams_mutex_)
    /\ worker' = "patterns_lock"
    /\ UNCHANGED <<registry_vars, flow_patterns_, raw_socket_, fm_running_,
                   nf_running_, patterns_mutex_, live_workers, discovery, hb, process,
                   now, wire, fg, call>>

\* circulation_worker: the lock_guard on patterns_mutex_
worker_patterns_lock ==
    /\ process = "running"
    /\ worker = "patterns_lock"
    /\ PatternsLockFree
    /\ patterns_mutex_' = "worker"
    /\ worker' = "patterns"
    /\ UNCHANGED <<registry_vars, engine_vars, fm_running_, nf_running_,
                   streams_mutex_, live_workers, discovery, hb, process, now, wire, fg, call>>

\* circulation_worker: the loop over flow_patterns_ goes to the next pattern
\* with auto_sustain and calls maintain_flow_pattern, or ends, unlocks and
\* sleeps
worker_next_pattern ==
    /\ process = "running"
    /\ worker = "patterns"
    /\ LET id == NextSustained(flow_patterns_, hb.id)
       IN IF id = 0
          THEN /\ patterns_mutex_' = Unlock(patterns_mutex_)
               /\ worker' = "running"
               /\ hb' = NoHeartbeat
          ELSE /\ worker' = "relock"
               /\ hb' = [id |-> id, packet |-> <<>>]
               /\ UNCHANGED patterns_mutex_
    /\ UNCHANGED <<registry_vars, engine_vars, fm_running_, nf_running_,
                   streams_mutex_, live_workers, discovery, process, now, wire, fg, call>>

\* maintain_flow_pattern: get_pattern locks patterns_mutex_, which the
\* thread holds
worker_relock(outcome) ==
    /\ process = "running"
    /\ worker = "relock"
    /\ worker' = CASE outcome = "deadlock" -> "deadlocked"
                   [] outcome = "terminate" -> worker
                   [] outcome = "proceeds" -> "get_stream"
    /\ process' = IF outcome = "terminate" THEN "terminated" ELSE process
    /\ UNCHANGED <<registry_vars, engine_vars, fm_running_, nf_running_,
                   patterns_mutex_, streams_mutex_, live_workers, discovery, hb, now, wire,
                   fg, call>>

\* maintain_flow_pattern: get_stream, with no lock; without a stream the
\* call returns, with one the heartbeat is built with next_sequence()
worker_get_stream ==
    /\ process = "running"
    /\ worker = "get_stream"
    /\ LET idx == GetStream(active_streams_, hb.id)
       IN IF idx = 0
          THEN /\ worker' = "patterns"
               /\ UNCHANGED <<active_streams_, hb>>
          ELSE /\ worker' = "send"
               /\ hb' = [hb EXCEPT !.packet = <<Heartbeat(active_streams_[idx], now)>>]
               /\ active_streams_' =
                     [active_streams_ EXCEPT ![idx] = NextSequence(@)]
    /\ UNCHANGED <<registry_vars, flow_patterns_, raw_socket_, fm_running_,
                   nf_running_, patterns_mutex_, streams_mutex_, live_workers,
                   discovery, process, now, wire, fg, call>>

\* maintain_flow_pattern: send_raw_packet(heartbeat); what it returns is
\* dropped
worker_send ==
    /\ process = "running"
    /\ worker = "send"
    /\ worker' = "add_packet"
    /\ UNCHANGED <<registry_vars, engine_vars, fm_running_, nf_running_,
                   patterns_mutex_, streams_mutex_, live_workers, discovery, hb,
                   process, now, wire, fg, call>>

\* maintain_flow_pattern: stream->add_packet(heartbeat), with no lock, on
\* the pointer get_stream returned; if the stream has been removed since,
\* the pointer dangles
worker_add_packet(outcome) ==
    /\ process = "running"
    /\ worker = "add_packet"
    /\ LET idx == GetStream(active_streams_, hb.id)
       IN /\ RaceStep(idx = 0, outcome)
          /\ IF idx = 0
             THEN UNCHANGED active_streams_
             ELSE \E s \in AddPacket(active_streams_[idx], hb.packet[1]) :
                     active_streams_' = [active_streams_ EXCEPT ![idx] = s]
    /\ worker' = "patterns"
    /\ hb' = [hb EXCEPT !.packet = <<>>]
    /\ UNCHANGED <<registry_vars, flow_patterns_, raw_socket_, fm_running_,
                   nf_running_, patterns_mutex_, streams_mutex_, live_workers,
                   discovery, now, wire, fg, call>>


\* the variables no foreground step of the engine changes
fg_frame == <<registry_vars, flow_patterns_, fm_running_, nf_running_,
              patterns_mutex_, worker, live_workers, discovery, hb, process, now, wire>>

\* NetworkFlow::inject_packet(packet): the lock_guard on streams_mutex_
inject_packet_lock(packet) ==
    /\ ForegroundReady
    /\ streams_mutex_ = "free"
    /\ streams_mutex_' = "fg"
    /\ fg' = [pc |-> "inject_add", packet |-> packet]
    /\ UNCHANGED <<fg_frame, active_streams_, raw_socket_, call>>

\* inject_packet: get_stream, add_stream and add_packet under the lock
inject_packet_add ==
    /\ process = "running"
    /\ fg.pc = "inject_add"
    /\ \E streams \in InjectInto(active_streams_, fg.packet) :
          active_streams_' = streams
    /\ fg' = [pc |-> "inject_send"]
    /\ UNCHANGED <<fg_frame, streams_mutex_, raw_socket_, call>>

\* inject_packet: send_raw_packet under the lock, the unlock and the return
inject_packet_send(send_ok) ==
    /\ process = "running"
    /\ fg.pc = "inject_send"
    /\ streams_mutex_' = Unlock(streams_mutex_)
    /\ fg' = Idle
    /\ call' = [op |-> "inject_packet", path |-> "returned",
                ret |-> SendRawPacket(raw_socket_, send_ok), notified |-> 0]
    /\ UNCHANGED <<fg_frame, active_streams_, raw_socket_>>

\* NetworkFlow::add_stream(flow_id) is entered: no lock is taken
add_stream_call(flow_id) ==
    /\ ForegroundReady
    /\ fg' = [pc |-> "add_stream", flow_id |-> flow_id]
    /\ UNCHANGED <<fg_frame, engine_vars, streams_mutex_, call>>

\* add_stream: the push_back and the return
add_stream_return ==
    /\ process = "running"
    /\ fg.pc = "add_stream"
    /\ active_streams_' = AddStream(active_streams_, fg.flow_id)
    /\ fg' = Idle
    /\ call' = [op |-> "add_stream", path |-> "returned", ret |-> 0, notified |-> 0]
    /\ UNCHANGED <<fg_frame, raw_socket_, streams_mutex_>>

\* NetworkFlow::remove_stream(flow_id) is entered: no lock is taken
remove_stream_call(flow_id) ==
    /\ ForegroundReady
    /\ fg' = [pc |-> "remove_stream", flow_id |-> flow_id]
    /\ UNCHANGED <<fg_frame, engine_vars, streams_mutex_, call>>

\* remove_stream: the erase and the return
remove_stream_return ==
    /\ process = "running"
    /\ fg.pc = "remove_stream"
    /\ active_streams_' = RemoveStream(active_streams_, fg.flow_id)
    /\ fg' = Idle
    /\ call' = [op |-> "remove_stream", path |-> "returned", ret |-> 0, notified |-> 0]
    /\ UNCHANGED <<fg_frame, raw_socket_, streams_mutex_>>

\* NetworkFlow::discover_flows() enters send_raw_packet: no lock is taken
discover_flows_call ==
    /\ ForegroundReady
    /\ fg' = [pc |-> "discover_send"]
    /\ UNCHANGED <<fg_frame, engine_vars, streams_mutex_, call>>

\* discover_flows: send_raw_packet writes the frame or not, and the return
discover_flows_send(send_ok) ==
    /\ process = "running"
    /\ fg.pc = "discover_send"
    /\ fg' = Idle
    /\ call' = [op |-> "discover_flows", path |-> "returned",
                ret |-> SendRawPacket(raw_socket_, send_ok), notified |-> 0]
    /\ UNCHANGED <<fg_frame, engine_vars, streams_mutex_>>

\* the discovery thread is inside a loop over active_files_
DiscoveryIterates == discovery \in {"sustain_files", "broadcast"}

\* the discovery thread after the foreground thread has changed
\* active_files_: a loop over the map has been raced
RacedDiscovery ==
    CASE discovery = "sustain_files" -> "sustain_files_raced"
      [] discovery = "broadcast" -> "broadcast_raced"
      [] OTHER -> discovery

\* FlowManager::open_flow(flow_name), up to generate_flow_id: the name is
\* validated and looked up in active_files_
open_flow_call(flow_name) ==
    /\ ForegroundReady
    /\ IF ~validate_flow_name(flow_name)
       THEN /\ call' = [op |-> "open_flow", path |-> "invalid", ret |-> 0,
                        notified |-> 0]
            /\ UNCHANGED <<registry_vars, fg>>
       ELSE IF OpenFlowFindsExisting(active_files_, flow_name)
       THEN /\ call' = [op |-> "open_flow", path |-> "existing",
                        ret |-> active_files_[flow_name].identifier,
                        notified |-> 0]
            /\ UNCHANGED <<registry_vars, fg>>
       ELSE /\ ~connect_to_flow(flow_name)
            /\ next_flow_id_ <= MaxFlowId
            /\ next_flow_id_' = GenerateFlowIdNext(next_flow_id_)
            /\ issued' = Append(issued, next_flow_id_)
            /\ fg' = [pc |-> "open_add_pattern", name |-> flow_name,
                      flow_id |-> next_flow_id_]
            /\ UNCHANGED <<active_files_, call>>
    /\ UNCHANGED <<engine_vars, thread_vars, now, wire>>

\* open_flow: add_circulation_pattern, under patterns_mutex_
open_flow_add_pattern ==
    /\ process = "running"
    /\ fg.pc = "open_add_pattern"
    /\ PatternsLockFree
    /\ flow_patterns_' =
          AddCirculationPattern(flow_patterns_, OpenFlowPattern(fg.flow_id, fg.name))
    /\ fg' = [fg EXCEPT !.pc = "open_insert"]
    /\ UNCHANGED <<registry_vars, active_streams_, raw_socket_, thread_vars, now, wire, call>>

\* open_flow: active_files_[flow_name] = the new file, with no lock, and
\* the return
open_flow_insert ==
    /\ process = "running"
    /\ fg.pc = "open_insert"
    /\ active_files_' = MapPut(active_files_, fg.name, OpenFlowFile(fg.flow_id, fg.name))
    /\ discovery' = RacedDiscovery
    /\ fg' = Idle
    /\ call' = [op |-> "open_flow", path |-> "created", ret |-> fg.flow_id,
                notified |-> 0]
    /\ UNCHANGED <<next_flow_id_, issued, engine_vars, fm_running_, nf_running_,
                   patterns_mutex_, streams_mutex_, worker, live_workers, hb, process,
                   now, wire>>

\* FlowManager::close_flow(flow_name), the lookup in active_files_
close_flow_call(flow_name) ==
    /\ ForegroundReady
    /\ IF flow_name \in DOMAIN active_files_
       THEN /\ fg' = [pc |-> "close_remove_pattern", name |-> flow_name,
                      flow_id |-> active_files_[flow_name].identifier]
            /\ UNCHANGED call
       ELSE /\ call' = [op |-> "close_flow", path |-> "not_open", ret |-> 0,
                        notified |-> 0]
            /\ UNCHANGED fg
    /\ UNCHANGED <<registry_vars, engine_vars, thread_vars, now, wire>>

\* close_flow: remove_circulation_pattern, under patterns_mutex_; then
\* remove_stream is entered, with no lock
close_flow_remove_pattern ==
    /\ process = "running"
    /\ fg.pc = "close_remove_pattern"
    /\ PatternsLockFree
    /\ flow_patterns_' = RemoveCirculationPattern(flow_patterns_, fg.flow_id)
    /\ fg' = [fg EXCEPT !.pc = "close_remove_stream"]
    /\ UNCHANGED <<registry_vars, active_streams_, raw_socket_, thread_vars, now, wire, call>>

\* close_flow: remove_stream erases the stream
close_flow_remove_stream ==
    /\ process = "running"
    /\ fg.pc = "close_remove_stream"
    /\ active_streams_' = RemoveStream(active_streams_, fg.flow_id)
    /\ fg' = [fg EXCEPT !.pc = "close_erase"]
    /\ UNCHANGED <<registry_vars, flow_patterns_, raw_socket_, thread_vars, now, wire, call>>

\* close_flow: active_files_.erase(it) destroys the FlowFile, with no lock,
\* and the return
close_flow_erase ==
    /\ process = "running"
    /\ fg.pc = "close_erase"
    /\ active_files_' = MapErase(active_files_, fg.name)
    /\ discovery' = RacedDiscovery
    /\ fg' = Idle
    /\ call' = [op |-> "close_flow", path |-> "closed", ret |-> 0, notified |-> 0]
    /\ UNCHANGED <<next_flow_id_, issued, engine_vars, fm_running_, nf_running_,
                   patterns_mutex_, streams_mutex_, worker, live_workers, hb, process,
                   now, wire>>

\* the variables no step of the discovery thread changes
discovery_frame == <<next_flow_id_, issued, flow_patterns_, raw_socket_, fm_running_,
                     nf_running_, patterns_mutex_, worker, live_workers, hb, now, wire, fg,
                     call>>

\* discovery_worker: discover_network_topology, then maintain_flow_circulation
\* calls sustain_all_flows, which enters its loop over active_files_
discovery_enter_files ==
    /\ process = "running"
    /\ discovery = "running"
    /\ fm_running_
    /\ discovery' = "sustain_files"
    /\ UNCHANGED <<discovery_frame, active_files_, active_streams_, streams_mutex_,
                   process>>

\* sustain_all_flows: the loop calls maintain_flow on every file
discovery_sustain_files(outcome) ==
    /\ process = "running"
    /\ discovery \in {"sustain_files", "sustain_files_raced"}
    /\ RaceStep(discovery = "sustain_files_raced", outcome)
    /\ active_files_' = SustainAllFiles(active_files_)
    /\ discovery' = "sustain_lock"
    /\ UNCHANGED <<discovery_frame, active_streams_, streams_mutex_>>

\* sustain_all_flows: sustain_circulation takes streams_mutex_
discovery_sustain_lock ==
    /\ process = "running"
    /\ discovery = "sustain_lock"
    /\ streams_mutex_ = "free"
    /\ streams_mutex_' = "discovery"
    /\ discovery' = "sustain"
    /\ UNCHANGED <<discovery_frame, active_files_, active_streams_, process>>

\* sustain_all_flows: sustain_circulation under the lock, and the unlock;
\* maintain_flow_circulation then enters its own loop over active_files_
discovery_sustain ==
    /\ process = "running"
    /\ discovery = "sustain"
    /\ active_streams_' = SustainCirculation(active_streams_, now)
    /\ streams_mutex_' = Unlock(streams_mutex_)
    /\ discovery' = "broadcast"
    /\ UNCHANGED <<discovery_frame, active_files_, process>>

\* maintain_flow_circulation: the loop calls broadcast_flow_existence for
\* every file; then the thread sleeps
discovery_broadcast(outcome) ==
    /\ process = "running"
    /\ discovery \in {"broadcast", "broadcast_raced"}
    /\ RaceStep(discovery = "broadcast_raced", outcome)
    /\ discovery' = "running"
    /\ UNCHANGED <<discovery_frame, active_files_, active_streams_, streams_mutex_>>


\* the name the registry is called with while the threads run
ThreadsNames == {<<"a">>}

\* the packet the engine is fed while the threads run
ThreadsPackets == {RawPacket(1, FLOW_DATA, <<120>>, now)}

\* every stream has room for the heartbeat of one more round
HeartbeatRoom ==
    \A i \in 1..Len(active_streams_) : Len(active_streams_[i].packets) < MaxPackets

\* the registry and the engine, step by step, with both background threads
ThreadsNext ==
    \/ initialize_network(<<"e">>, "ok")
    \/ \E n \in ThreadsNames : open_flow_call(n)
    \/ open_flow_add_pattern
    \/ open_flow_insert
    \/ \E n \in ThreadsNames : close_flow_call(n)
    \/ close_flow_remove_pattern
    \/ close_flow_remove_stream
    \/ close_flow_erase
    \/ \E p \in ThreadsPackets : PacketRoom(p) /\ inject_packet_lock(p)
    \/ inject_packet_add
    \/ \E send_ok \in BOOLEAN : inject_packet_send(send_ok)
    \/ StreamRoom /\ add_stream_call(1)
    \/ add_stream_return
    \/ remove_stream_call(1)
    \/ remove_stream_return
    \/ discover_flows_call
    \/ \E send_ok \in BOOLEAN : discover_flows_send(send_ok)
    \/ HeartbeatRoom /\ worker_sustain_lock
    \/ worker_sustain
    \/ worker_patterns_lock
    \/ worker_next_pattern
    \/ \E outcome \in AllRelockOutcomes : worker_relock(outcome)
    \/ worker_get_stream
    \/ worker_send
    \/ \E outcome \in RaceOutcomes : worker_add_packet(outcome)
    \/ discovery_enter_files
    \/ \E outcome \in RaceOutcomes : discovery_sustain_files(outcome)
    \/ discovery_sustain_lock
    \/ discovery_sustain
    \/ \E outcome \in RaceOutcomes : discovery_broadcast(outcome)

SpecThreads == Init /\ [][ThreadsNext]_vars


\* the stream of flow id holds packet p
HoldsPacket(streams, id, p) ==
    \E i \in 1..Len(streams) :
       /\ streams[i].flow_id = id
       /\ \E j \in 1..Len(streams[i].packets) : streams[i].packets[j] = p

\* the number of packets in the streams of flow id
PacketCount(streams, id) ==
    LET held == StreamsOf(streams, id)
    IN IF Len(held) = 0 THEN 0 ELSE Len(held[1].packets)

\* C15: the scheduler's heartbeat pass leaves a pattern with auto_sustain
\* only after one HEARTBEAT packet of the pattern's id, carrying the
\* stream's next sequence number, has been passed to send_raw_packet and
\* appended to the flow's stream; and it does leave it: the pass is not
\* stopped at the pattern.
C15_HeartbeatPerPattern ==
    [][/\ (worker = "relock" /\ worker' # "relock") => worker' = "get_stream"
       /\ (worker \in {"get_stream", "send", "add_packet"} /\ worker' = "patterns") =>
             /\ worker = "add_packet"
             /\ hb.packet[1].packet_type = FLOW_HEARTBEAT
             /\ hb.packet[1].flow_id = hb.id
             /\ HoldsPacket(active_streams_', hb.id, hb.packet[1])
             /\ PacketCount(active_streams_', hb.id) =
                   PacketCount(active_streams_, hb.id) + 1]_vars

\* the threads of the process
Threads == {"fg", "worker", "discovery"}

\* thread t is inside a read or a modification of active_streams_ or of a
\* stream's packets
InStreams(t) ==
    CASE t = "fg" -> fg.pc \in {"inject_add", "add_stream", "remove_stream",
                                "close_remove_stream"}
      [] t = "worker" -> worker \in {"sustain", "get_stream", "add_packet"}
      [] t = "discovery" -> discovery = "sustain"

\* C16: a thread inside a read or a modification of the stream collection or
\* of a stream's packets holds the stream lock, so no two threads are inside
\* one at the same time.
C16_StreamsUnderLock ==
    /\ \A t \in Threads : InStreams(t) => streams_mutex_ = t
    /\ Cardinality({t \in Threads : InStreams(t)}) <= 1

\* thread t is inside send_raw_packet, with a socket to write to
InSend(t) ==
    /\ raw_socket_ >= 0
    /\ CASE t = "fg" -> fg.pc \in {"inject_send", "discover_send"}
         [] t = "worker" -> worker = "send"
         [] t = "discovery" -> FALSE

C18_RegistryCoordinated ==
    /\ ~(DiscoveryIterates /\ fg.pc \in {"open_insert", "close_erase"})
    /\ discovery \notin {"sustain_files_raced", "broadcast_raced"}


(***************************************************************************)
(* Packets ageing under the clock (specification SpecAge).                 *)
(***************************************************************************)
\* the clock is read over this many maximum ages
MaxTicks == 1

\* the times the clock is read at: the multiples of the maximum age, and
\* one microsecond after each
ClockValues == {k * MAX_AGE_MICROSECONDS + j : k \in 0..MaxTicks, j \in 0..1}

\* std::chrono::high_resolution_clock goes on to time t
tick(t) ==
    /\ t > now
    /\ now' = t
    /\ UNCHANGED <<registry_vars, engine_vars, thread_vars, fg, call, wire>>

\* NetworkFlow::sustain_circulation(), called directly
sustain_circulation ==
    /\ ForegroundReady
    /\ call' = [op |-> "sustain_circulation", path |-> "returned", ret |-> 0,
                notified |-> 0]
    /\ active_streams_' = SustainCirculation(active_streams_, now)
    /\ UNCHANGED <<registry_vars, flow_patterns_, raw_socket_, thread_vars, now, wire, fg>>

\* the engine fed packets stamped by the clock, and sustained by a direct
\* call, by the registry and by the scheduler
AgeNext ==
    \/ \E t \in ClockValues : tick(t)
    \/ \E p \in EnginePackets : \E send_ok \in BOOLEAN :
          PacketRoom(p) /\ NotHeld(p) /\ inject_packet(p, send_ok)
    \/ sustain_circulation
    \/ sustain_all_flows
    \/ initialize_network(<<"e">>, "ok")
    \/ circulation_worker

SpecAge == Init /\ [][AgeNext]_vars

\* C19: after sustain_circulation, called directly, by sustain_all_flows or
\* by the scheduler, no stream holds a packet whose age exceeded the maximum
\* at the time of the call, and every packet left is stamped with the time
\* of the call.
C19_SustainEvicts ==
    [][(sustain_circulation \/ sustain_all_flows \/ circulation_worker) =>
          /\ Len(active_streams_') = Len(active_streams_)
          /\ \A i \in 1..Len(active_streams_) :
                /\ \A j \in 1..Len(active_streams_[i].packets) :
                      IsOld(active_streams_[i].packets[j], now) =>
                         \A k \in 1..Len(active_streams_'[i].packets) :
                            active_streams_'[i].packets[k].sequence #
                               active_streams_[i].packets[j].sequence
                /\ \A k \in 1..Len(active_streams_'[i].packets) :
                      active_streams_'[i].packets[k].timestamp = now]_vars


(***************************************************************************)
(* RawPacket's wire format (specification SpecCodec).                      *)
(***************************************************************************)
\* sizeof(FlowPacketHeader): the struct is packed, 4 + 8 + 4 + 4 + 4 + 8 bytes
HEADER_SIZE == 32

\* the w bytes of the unsigned integer v in memory, lowest first
RECURSIVE ToBytes(_, _)
ToBytes(v, w) == IF w = 0 THEN <<>> ELSE <<v % 256>> \o ToBytes(v \div 256, w - 1)

\* the unsigned integer whose bytes in memory are b
RECURSIVE FromBytes(_)
FromBytes(b) == IF Len(b) = 0 THEN 0 ELSE b[1] + 256 * FromBytes(Tail(b))

\* the bytes of a FlowPacketHeader in memory
HeaderBytes(p) ==
    ToBytes(p.magic, 4) \o ToBytes(p.flow_id, 8) \o ToBytes(p.sequence, 4)
       \o ToBytes(p.packet_type, 4) \o ToBytes(p.data_length, 4)
       \o ToBytes(p.timestamp, 8)

\* RawPacket::serialize: the header's bytes, then the payload
Serialize(p) == HeaderBytes(p) \o p.payload

\* std::memcpy(&header_, raw_data.data(), sizeof(FlowPacketHeader))
CopyHeader(target, data) ==
    [target EXCEPT !.magic = FromBytes(SubSeq(data, 1, 4)),
                   !.flow_id = FromBytes(SubSeq(data, 5, 12)),
                   !.sequence = FromBytes(SubSeq(data, 13, 16)),
                   !.packet_type = FromBytes(SubSeq(data, 17, 20)),
                   !.data_length = FromBytes(SubSeq(data, 21, 24)),
                   !.timestamp = FromBytes(SubSeq(data, 25, 32))]

\* a faulty deserialize that never assigns the payload; C20 rules it out
DeserializeKeepsPayload(target, data) ==
    IF Len(data) < HEADER_SIZE THEN [ok |-> FALSE, packet |-> target]
    ELSE LET copied == CopyHeader(target, data)
         IN [ok |-> copied.magic = FLOW_MAGIC, packet |-> copied]

\* a faulty deserialize that takes any magic; C21 rules it out
DeserializeAnyMagic(target, data) ==
    IF Len(data) < HEADER_SIZE THEN [ok |-> FALSE, packet |-> target]
    ELSE LET copied == CopyHeader(target, data)
         IN IF Len(data) >= HEADER_SIZE + copied.data_length
            THEN [ok |-> TRUE,
                  packet |-> [copied EXCEPT !.payload =
                                 SubSeq(data, HEADER_SIZE + 1,
                                        HEADER_SIZE + copied.data_length)]]
            ELSE [ok |-> TRUE, packet |-> copied]

\* a faulty deserialize that assigns the bytes there are when the payload is
\* cut short; C22 rules it out
DeserializePartial(target, data) ==
    IF Len(data) < HEADER_SIZE THEN [ok |-> FALSE, packet |-> target]
    ELSE LET copied == CopyHeader(target, data)
         IN IF copied.magic # FLOW_MAGIC THEN [ok |-> FALSE, packet |-> copied]
            ELSE [ok |-> TRUE,
                  packet |-> [copied EXCEPT !.payload =
                                 SubSeq(data, HEADER_SIZE + 1, Len(data))]]

\* RawPacket::deserialize(raw_data) called on packet target: what it
\* returns, and the packet it leaves
Deserialize(target, data) ==
    IF Len(data) < HEADER_SIZE THEN [ok |-> FALSE, packet |-> target]
    ELSE LET copied == CopyHeader(target, data)
         IN IF copied.magic # FLOW_MAGIC THEN [ok |-> FALSE, packet |-> copied]
            ELSE IF Len(data) >= HEADER_SIZE + copied.data_length
            THEN [ok |-> TRUE,
                  packet |-> [copied EXCEPT !.payload =
                                 SubSeq(data, HEADER_SIZE + 1,
                                        HEADER_SIZE + copied.data_length)]]
            ELSE [ok |-> TRUE, packet |-> copied]

\* RawPacket::serialize() of packet p; the call is kept with the packet it
\* was made on and the bytes it returned
serialize(p) ==
    /\ ForegroundReady
    /\ call' = [op |-> "serialize", path |-> "returned",
                ret |-> [packet |-> p, bytes |-> Serialize(p)], notified |-> 0]
    /\ UNCHANGED <<registry_vars, engine_vars, thread_vars, now, wire, fg>>

\* RawPacket::deserialize(data) called on packet target; the packet it
\* leaves is kept with what the call returns
deserialize(target, data) ==
    /\ ForegroundReady
    /\ call' = [op |-> "deserialize",
                path |-> IF Deserialize(target, data).ok THEN "true" ELSE "false",
                ret |-> Deserialize(target, data).packet, notified |-> 0]
    /\ UNCHANGED <<registry_vars, engine_vars, thread_vars, now, wire, fg>>

\* payloads are this long at most
MaxPayload == 2

\* the packets that are serialized: built by the constructor at the current
\* time from a flow id, a type and a payload, then given a sequence number
CodecPackets ==
    {SetSequence(RawPacket(id, type, payload, now), seq) :
        id \in {1, 258}, type \in {FLOW_DATA, FLOW_DISCOVERY},
        payload \in SeqsUpTo({0, 255}, MaxPayload), seq \in {0, 65537}}

\* the packets deserialize is called on: a default one, and one that holds
\* a payload already
CodecTargets ==
    {RawPacket(0, FLOW_DATA, <<>>, now), RawPacket(7, FLOW_EDIT, <<9>>, now)}

\* the bytes deserialize is handed when serialize returned bytes: these, cut
\* below the header, cut by one byte, followed by one byte more, or with
\* another byte in one place of the magic
CodecInputs(bytes) ==
    {bytes, SubSeq(bytes, 1, HEADER_SIZE - 1), SubSeq(bytes, 1, Len(bytes) - 1),
     bytes \o <<7>>}
       \cup {[bytes EXCEPT ![k] = 0] : k \in 1..4}

\* packets serialized and the bytes deserialized, as the clock goes on
CodecNext ==
    \/ \E t \in ClockValues : tick(t)
    \/ \E p \in CodecPackets : serialize(p)
    \/ /\ call.op = "serialize"
       /\ \E target \in CodecTargets : \E data \in CodecInputs(call.ret.bytes) :
             deserialize(target, data)

SpecCodec == Init /\ [][CodecNext]_vars

\* C20: deserialize of the bytes serialize returned for a packet built from
\* a flow id, a type and a payload, with any sequence number, returns true
\* and leaves a packet with the same magic, flow_id, sequence, packet_type,
\* data_length, timestamp and payload, for which is_valid() holds.
C20_CodecRoundTrip ==
    [][(/\ call.op = "serialize"
        /\ call'.op = "deserialize"
        /\ \E target \in CodecTargets : deserialize(target, call.ret.bytes)) =>
          /\ call'.path = "true"
          /\ call'.ret = call.ret.packet
          /\ IsValid(call'.ret)]_vars

\* C20's case: the bytes of a packet with a payload of full length, a
\* sequence number and a flow id above one byte and a late timestamp have
\* been deserialized into a packet that held another payload
C20_Witness ==
    /\ call.op = "deserialize"
    /\ call.path = "true"
    /\ call.ret.flow_id = 258
    /\ call.ret.sequence = 65537
    /\ call.ret.timestamp = MAX_AGE_MICROSECONDS + 1
    /\ call.ret.payload = <<255, 0>>

\* the magic field of the bytes data, which hold four bytes at least
MagicOf(data) == FromBytes(SubSeq(data, 1, 4))

\* C21 (amended: the header is 32 bytes long): deserialize returns false for
\* every buffer shorter than the 32-byte header and for every buffer whose
\* magic field differs from FLOW_MAGIC, whatever the rest of the buffer; it
\* returns true for every buffer of at least 32 bytes whose magic matches.
C21_MalformedRejected ==
    [][(call.op = "serialize" /\ call'.op = "deserialize") =>
          \A target \in CodecTargets : \A data \in CodecInputs(call.ret.bytes) :
             deserialize(target, data) =>
                (call'.path = "false" <=>
                    (Len(data) < HEADER_SIZE \/ MagicOf(data) # FLOW_MAGIC))]_vars

\* C21's case: a buffer of full length with one byte of the magic changed
\* has been refused
C21_Witness ==
    /\ call.op = "deserialize"
    /\ call.path = "false"
    /\ call.ret.magic # FLOW_MAGIC
    /\ call.ret.data_length = MaxPayload

\* C21 as stated, with a header of 28 bytes: deserialize returns false
\* exactly for the buffers shorter than 28 bytes and those with another magic.
C21_MalformedRejected28 ==
    [][(call.op = "serialize" /\ call'.op = "deserialize") =>
          \A target \in CodecTargets : \A data \in CodecInputs(call.ret.bytes) :
             deserialize(target, data) =>
                (call'.path = "false" <=>
                    (Len(data) < 28 \/ MagicOf(data) # FLOW_MAGIC))]_vars

\* the data_length field of the bytes data, which hold a header at least
DataLengthOf(data) == FromBytes(SubSeq(data, 21, 24))

\* the bytes data hold a header with the right magic and declare more
\* payload than they hold
Truncated(data) ==
    /\ Len(data) >= HEADER_SIZE
    /\ MagicOf(data) = FLOW_MAGIC
    /\ DataLengthOf(data) > Len(data) - HEADER_SIZE

\* RawPacket::RawPacket(): a newly constructed packet
FreshPacket == RawPacket(0, FLOW_DATA, <<>>, now)

\* C22: deserialize, called on a newly constructed packet with a buffer that
\* holds a header with the right magic and data_length = n > 0 followed by
\* fewer than n bytes, returns true and leaves a packet with an empty
\* payload for which is_valid() is false.
C22_TruncationOnFresh ==
    [][(call.op = "serialize" /\ call'.op = "deserialize") =>
          \A data \in CodecInputs(call.ret.bytes) :
             (Truncated(data) /\ deserialize(FreshPacket, data)) =>
                /\ call'.path = "true"
                /\ call'.ret.payload = <<>>
                /\ call'.ret.data_length = DataLengthOf(data)
                /\ ~IsValid(call'.ret)]_vars

\* C22's case: a header that declares a payload of full length, followed by
\* one byte less, has been deserialized into a new packet
C22_Witness ==
    /\ call.op = "deserialize"
    /\ call.path = "true"
    /\ call.ret.data_length = MaxPayload
    /\ call.ret.payload = <<>>
    /\ call.ret.flow_id = 258

\* C23: whatever header and payload a packet held before the call, after
\* deserialize of a buffer whose declared data_length exceeds the bytes
\* that follow the header, is_valid() is false.
C23_TruncatedInvalid ==
    [][(call.op = "serialize" /\ call'.op = "deserialize") =>
          \A target \in CodecTargets : \A data \in CodecInputs(call.ret.bytes) :
             (Truncated(data) /\ deserialize(target, data)) =>
                ~IsValid(call'.ret)]_vars

(***************************************************************************)
(* One stream, reached through get_stream and called directly              *)
(* (specification SpecStream).                                             *)
(***************************************************************************)
\* the flow of the stream under call, and a flow it does not carry
StreamFlow == 1
OtherFlow == 2

\* RawPacket::header()
HeaderOf(p) == [f \in DOMAIN p \ {"payload"} |-> p[f]]

\* RawPacket::set_header: the header is replaced, the payload stays
SetHeader(p, header) == header @@ [payload |-> p.payload]

\* PacketStream::remove_packet
RemovePacket(stream, sequence) ==
    [stream EXCEPT !.packets = SelectSeq(@, LAMBDA p : p.sequence # sequence)]

\* the stream get_stream(flow_id) points to can take one more packet
StreamHasRoom(flow_id) ==
    /\ GetStream(active_streams_, flow_id) # 0
    /\ Len(active_streams_[GetStream(active_streams_, flow_id)].packets) < MaxPackets

\* the foreground thread's call on a stream returns
StreamCall(op, ret, streams) ==
    /\ ForegroundReady
    /\ active_streams_' = streams
    /\ call' = [op |-> op, path |-> "returned", ret |-> ret, notified |-> 0]
    /\ UNCHANGED <<registry_vars, flow_patterns_, raw_socket_, thread_vars, now, wire, fg>>

\* get_stream(flow_id)->add_packet(packet)
stream_add_packet(flow_id, packet) ==
    LET idx == GetStream(active_streams_, flow_id)
    IN /\ idx # 0
       /\ \E s \in AddPacket(active_streams_[idx], packet) :
             StreamCall("add_packet", 0, [active_streams_ EXCEPT ![idx] = s])

\* get_stream(flow_id)->remove_packet(sequence)
stream_remove_packet(flow_id, sequence) ==
    LET idx == GetStream(active_streams_, flow_id)
    IN /\ idx # 0
       /\ StreamCall("remove_packet", 0,
                     [active_streams_ EXCEPT ![idx] = RemovePacket(@, sequence)])

\* get_stream(flow_id)->maintain_circulation()
stream_maintain_circulation(flow_id) ==
    LET idx == GetStream(active_streams_, flow_id)
    IN /\ idx # 0
       /\ StreamCall("maintain_circulation", 0,
                     [active_streams_ EXCEPT ![idx] = MaintainCirculation(@, now)])

\* get_stream(flow_id)->cleanup_old_packets()
stream_cleanup_old_packets(flow_id) ==
    LET idx == GetStream(active_streams_, flow_id)
    IN /\ idx # 0
       /\ StreamCall("cleanup_old_packets", 0,
                     [active_streams_ EXCEPT ![idx] = CleanupOldPackets(@, now)])

\* get_stream(flow_id)->next_sequence(): the counter is returned, then
\* incremented
stream_next_sequence(flow_id) ==
    LET idx == GetStream(active_streams_, flow_id)
    IN /\ idx # 0
       /\ StreamCall("next_sequence", active_streams_[idx].next_sequence,
                     [active_streams_ EXCEPT ![idx] = NextSequence(@)])

\* get_stream(flow_id)->next_sequence() called again and again, until the
\* call that returns 2^32 - 3 and leaves the counter at 2^32 - 2
stream_next_sequence_repeat(flow_id) ==
    LET idx == GetStream(active_streams_, flow_id)
    IN /\ idx # 0
       /\ U32Less(active_streams_[idx].next_sequence, U32Max - 1)
       /\ StreamCall("next_sequence", U32Max - 2,
                     [active_streams_ EXCEPT ![idx].next_sequence = U32Max - 1])

\* NetworkFlow::circulation_worker, one round of the loop in which the
\* second lock of patterns_mutex_ goes through: sustain_circulation, then
\* maintain_flow_pattern for the pattern of flow_id
circulation_worker_heartbeat(flow_id) ==
    LET sustained == SustainCirculation(active_streams_, now)
        idx == GetStream(sustained, flow_id)
    IN /\ process = "running"
       /\ worker = "running"
       /\ nf_running_
       /\ PatternsLockFree
       /\ flow_id \in DOMAIN flow_patterns_
       /\ flow_patterns_[flow_id].auto_sustain
       /\ \A id \in DOMAIN flow_patterns_ : id = flow_id
       /\ IF idx = 0 THEN active_streams_' = sustained
          ELSE \E s \in AddPacket(NextSequence(sustained[idx]),
                                  Heartbeat(sustained[idx], now)) :
                  active_streams_' = [sustained EXCEPT ![idx] = s]
       /\ UNCHANGED <<registry_vars, flow_patterns_, raw_socket_, thread_vars, now, wire,
                      fg, call>>

\* the sequence numbers a stream is called with
StreamSequences == {0, 1}

\* the times the clock is read at while a stream is called: the maximum
\* age after the start, and one microsecond later
StreamClock == {MAX_AGE_MICROSECONDS, MAX_AGE_MICROSECONDS + 1}

\* the packets a stream is given: built by the constructor and given a
\* sequence number, two of them with one sequence number; some then take,
\* by set_header, a timestamp the clock has not reached or a data_length
\* that is not the payload's
StreamPackets ==
    LET first == SetSequence(RawPacket(StreamFlow, FLOW_DATA, <<120>>, now), 0)
    IN {first,
        SetSequence(RawPacket(StreamFlow, FLOW_DATA, <<121>>, now), 0),
        SetSequence(RawPacket(StreamFlow, FLOW_DATA, <<120>>, now), 1),
        SetHeader(first, [HeaderOf(first) EXCEPT !.timestamp = now + 1]),
        SetHeader(first, [HeaderOf(first) EXCEPT !.data_length = 5]),
        SetSequence(RawPacket(OtherFlow, FLOW_DATA, <<120>>, now), 0)}

\* the calls the counter is followed over before it is run to its end
MaxCalls == 2

\* next_sequence is called on a counter the model follows
CounterRoom(flow_id) ==
    LET idx == GetStream(active_streams_, flow_id)
    IN idx # 0 =>
          \/ active_streams_[idx].next_sequence \in 0..(MaxCalls - 1)
          \/ U32Less(U32Max - 2, active_streams_[idx].next_sequence)

StreamNext ==
    \/ \E t \in StreamClock : tick(t)
    \/ GetStream(active_streams_, StreamFlow) = 0 /\ add_stream(StreamFlow)
    \/ remove_stream(StreamFlow)
    \/ \E p \in StreamPackets : StreamHasRoom(StreamFlow) /\ stream_add_packet(StreamFlow, p)
    \/ \E seq \in StreamSequences : stream_remove_packet(StreamFlow, seq)
    \/ stream_maintain_circulation(StreamFlow)
    \/ stream_cleanup_old_packets(StreamFlow)
    \/ \E p \in StreamPackets :
          /\ p.flow_id = StreamFlow
          /\ StreamHasRoom(StreamFlow)
          /\ inject_packet(p, TRUE)
    \/ add_circulation_pattern(EnginePattern(StreamFlow, <<"a">>, <<>>, 1, 1, TRUE))
    \/ initialize_network(<<"e">>, "ok")
    \/ /\ StreamHasRoom(StreamFlow)
       /\ CounterRoom(StreamFlow)
       /\ circulation_worker_heartbeat(StreamFlow)

SpecStream == Init /\ [][StreamNext]_vars

\* every stream of the engine holds its packets in non-decreasing order of
\* sequence number
AllStreamsSorted ==
    \A i \in 1..Len(active_streams_) : IsSortedBySequence(active_streams_[i].packets)

\* C24: after any sequence of add_packet, remove_packet,
\* maintain_circulation and cleanup_old_packets on a stream, and of
\* inject_packet and scheduler heartbeats on the engine, the stream's packet
\* list is sorted in non-decreasing order of sequence number.
C24_StreamSorted == AllStreamsSorted

\* C24's case: a packet built at the present time was added to a stream that
\* held an older one of a greater sequence number, and the stream holds the
\* two in order
C24_Witness ==
    /\ call.op = "add_packet"
    /\ \E i \in 1..Len(active_streams_) :
          /\ Len(active_streams_[i].packets) = 2
          /\ active_streams_[i].packets[1].timestamp = now
          /\ active_streams_[i].packets[2].timestamp < now
          /\ U32Less(active_streams_[i].packets[1].sequence,
                     active_streams_[i].packets[2].sequence)

(***************************************************************************)
(* The sequence counter of one stream (specification SpecCounter).         *)
(***************************************************************************)
CounterNext ==
    \/ GetStream(active_streams_, StreamFlow) = 0 /\ add_stream(StreamFlow)
    \/ remove_stream(StreamFlow)
    \/ CounterRoom(StreamFlow) /\ stream_next_sequence(StreamFlow)
    \/ stream_next_sequence_repeat(StreamFlow)
    \/ \E seq \in {0, 1, U32Max - 1, U32Max} : stream_remove_packet(StreamFlow, seq)
    \/ add_circulation_pattern(EnginePattern(StreamFlow, <<"a">>, <<>>, 1, 1, TRUE))
    \/ initialize_network(<<"e">>, "ok")
    \/ /\ StreamHasRoom(StreamFlow)
       /\ CounterRoom(StreamFlow)
       /\ circulation_worker_heartbeat(StreamFlow)

SpecCounter == Init /\ [][CounterNext]_vars

\* C25: successive calls of next_sequence() on one stream return 0, 1, 2,
\* ... and no value is returned twice while the stream exists, for any
\* number of calls: each call returns the counter, and leaves a counter
\* greater than every value returned so far, which is every value up to the
\* one it returned.
C25_NextSequenceUnique ==
    [][stream_next_sequence(StreamFlow) =>
          LET idx == GetStream(active_streams_, StreamFlow)
          IN /\ call'.ret = active_streams_[idx].next_sequence
             /\ U32Less(call'.ret, active_streams_'[idx].next_sequence)]_vars

\* the packets of the stream of StreamFlow
StreamPacketsHeld(streams) == streams[GetStream(streams, StreamFlow)].packets

\* packet p put into the sorted list ps after the packets of its sequence
\* number and before those of a greater one
StableInsert(ps, p) ==
    SelectSeq(ps, LAMBDA q : ~U32Less(p.sequence, q.sequence))
       \o <<p>> \o SelectSeq(ps, LAMBDA q : U32Less(p.sequence, q.sequence))

\* C28: add_packet is stable on ties: after every add_packet call the
\* packets of one stream that carry the same sequence number are in the
\* order in which they were added, so the packet added stands after the
\* packets of its sequence number that the stream held.
C28_AddPacketStable ==
    [][call'.op = "add_packet" =>
          \A p \in StreamPackets :
             (p.flow_id = StreamFlow /\ stream_add_packet(StreamFlow, p)) =>
                StreamPacketsHeld(active_streams_') =
                   StableInsert(StreamPacketsHeld(active_streams_), p)]_vars

\* C29: cleanup_old_packets removes the packets with now minus timestamp
\* greater than MAX_AGE_MICROSECONDS and keeps, unchanged and in order,
\* every packet with now minus timestamp at most that.
C29_CleanupExact ==
    [][stream_cleanup_old_packets(StreamFlow) =>
          StreamPacketsHeld(active_streams_') =
             SelectSeq(StreamPacketsHeld(active_streams_),
                       LAMBDA p : now - p.timestamp <= MAX_AGE_MICROSECONDS)]_vars

\* C30: maintain_circulation changes only timestamps: the number and order
\* of the packets are unchanged, every field but the timestamp is as before
\* the call, and every timestamp is the time of the call.
C30_MaintainOnlyTimestamps ==
    [][stream_maintain_circulation(StreamFlow) =>
          LET before == StreamPacketsHeld(active_streams_)
              after == StreamPacketsHeld(active_streams_')
          IN /\ Len(after) = Len(before)
             /\ \A i \in 1..Len(before) :
                   after[i] = [before[i] EXCEPT !.timestamp = now]]_vars

(***************************************************************************)
(* The engine with an interface that fails to come up (specification       *)
(* SpecInterface).                                                         *)
(***************************************************************************)
InterfaceNext ==
    \/ \E outcome \in InterfaceOutcomes : initialize_network(<<"e">>, outcome)
    \/ \E outcome \in InterfaceOutcomes : initialize_interface(<<"e">>, outcome)
    \/ \E n \in RegistryNames : open_flow(n)
    \/ \E n \in RegistryNames : close_flow(n)
    \/ \E p \in RegistryPackets : \E send_ok \in BOOLEAN :
          NotHeld(p) /\ inject_packet(p, send_ok)

SpecInterface == Init /\ [][InterfaceNext]_vars

\* the outcomes with which initialize_interface fails
FailingOutcomes == InterfaceOutcomes \ {"ok"}

\* some stream holds packet p
Holds(streams, p) ==
    \E i \in 1..Len(streams) : \E j \in 1..Len(streams[i].packets) :
       streams[i].packets[j] = p

\* C26: if initialize_interface fails (socket creation, interface-index
\* lookup or bind), it returns false and leaves the socket handle invalid,
\* so every later send_raw_packet returns false; initialize_network then
\* returns false and starts neither the scheduler thread nor the discovery
\* thread, and open_flow, close_flow and inject_packet keep updating local
\* state.
C26_InterfaceFailure ==
    [][/\ \A outcome \in FailingOutcomes :
             (initialize_interface(<<"e">>, outcome)
                 \/ initialize_network(<<"e">>, outcome)) =>
                /\ call'.ret = FALSE
                /\ raw_socket_' < 0
                /\ UNCHANGED thread_vars
       /\ raw_socket_ < 0 =>
             /\ \A p \in RegistryPackets : \A send_ok \in BOOLEAN :
                   (NotHeld(p) /\ inject_packet(p, send_ok)) =>
                      /\ call'.ret = FALSE
                      /\ Holds(active_streams_', p)
                      /\ raw_socket_' < 0
             /\ \A n \in ValidNames \cap RegistryNames :
                   /\ (n \notin DOMAIN active_files_ /\ open_flow(n)) =>
                         /\ n \in DOMAIN active_files_'
                         /\ call'.ret \in DOMAIN flow_patterns_'
                   /\ (n \in DOMAIN active_files_ /\ close_flow(n)) =>
                         /\ n \notin DOMAIN active_files_'
                         /\ active_files_[n].identifier \notin DOMAIN flow_patterns_']_vars

\* C26's case: initialize_network has failed at bind() with flows open, and
\* the socket is invalid and no thread runs
C26_Witness ==
    /\ call.op = "initialize_network"
    /\ call.path = "bind_fails"
    /\ call.ret = FALSE
    /\ raw_socket_ < 0
    /\ worker = "none"
    /\ discovery = "none"
    /\ DOMAIN active_files_ # {}

\* C27: no thread ever holds the stream lock and the pattern lock at the
\* same time, in any interleaving of foreground engine calls, the scheduler
\* thread and the discovery thread.
C27_LocksNeverNested ==
    \A t \in Threads : ~(streams_mutex_ = t /\ patterns_mutex_ = t)

\* C27's case: the scheduler thread holds the pattern lock, having held and
\* released the stream lock, while another thread holds the stream lock
C27_Witness ==
    /\ patterns_mutex_ = "worker"
    /\ streams_mutex_ \in Threads \ {"worker"}

(***************************************************************************)
(* Two nodes on one wire, each passing the frames it receives to           *)
(* handle_incoming_packet (specifications SpecExchange and                 *)
(* SpecExchangeFair).                                                      *)
(***************************************************************************)
\* send_raw_packet(packet) with the frames on their way to the other node:
\* the frames on their way after it
SendFrame(socket, send_ok, frames, packet) ==
    IF SendRawPacket(socket, send_ok) THEN Append(frames, packet) ELSE frames

\* a faulty handle_incoming_packet that passes control frames to
\* inject_packet too; C31 rules it out
HandlerBranchControl(type) ==
    IF type \in {FLOW_DATA, FLOW_CONTROL, FLOW_HEARTBEAT, FLOW_EDIT} THEN "inject_packet"
    ELSE IF type = FLOW_DISCOVERY THEN "discover_flows"
    ELSE "dropped"

\* NetworkFlow::handle_incoming_packet: the case the switch on packet_type
\* takes
HandlerBranch(type) ==
    IF type \in {FLOW_DATA, FLOW_HEARTBEAT, FLOW_EDIT} THEN "inject_packet"
    ELSE IF type = FLOW_DISCOVERY THEN "discover_flows"
    ELSE "dropped"

\* NetworkFlow::discover_flows: the packet it builds
DiscoveryPacket == RawPacket(0, FLOW_DISCOVERY, <<>>, now)

\* this node receives the first frame on its way to it and passes it to
\* NetworkFlow::handle_incoming_packet; send_ok is what send() will do
handle_incoming_packet(send_ok) ==
    /\ ForegroundReady
    /\ wire.local # <<>>
    /\ LET packet == Head(wire.local)
           branch == HandlerBranch(packet.packet_type)
       IN /\ call' = [op |-> "handle_incoming_packet", path |-> branch,
                      ret |-> IF branch = "dropped" THEN FALSE
                              ELSE SendRawPacket(raw_socket_, send_ok),
                      notified |-> 0]
          /\ CASE branch = "inject_packet" ->
                    /\ \E streams \in InjectInto(active_streams_, packet) :
                          active_streams_' = streams
                    /\ wire' = [local |-> Tail(wire.local),
                                peer |-> SendFrame(raw_socket_, send_ok, wire.peer,
                                                   packet)]
               [] branch = "discover_flows" ->
                    /\ wire' = [local |-> Tail(wire.local),
                                peer |-> SendFrame(raw_socket_, send_ok, wire.peer,
                                                   DiscoveryPacket)]
                    /\ UNCHANGED active_streams_
               [] branch = "dropped" ->
                    /\ wire' = [wire EXCEPT !.local = Tail(@)]
                    /\ UNCHANGED active_streams_
    /\ UNCHANGED <<registry_vars, flow_patterns_, raw_socket_, thread_vars, now, fg>>

\* the peer receives the first frame on its way to it and passes it to its
\* handle_incoming_packet; the peer's interface is up, and of its state
\* only the frames it sends are followed
peer_handle_incoming_packet(send_ok) ==
    /\ wire.peer # <<>>
    /\ LET packet == Head(wire.peer)
           branch == HandlerBranch(packet.packet_type)
       IN wire' = [peer |-> Tail(wire.peer),
                   local |-> CASE branch = "inject_packet" ->
                                     SendFrame(3, send_ok, wire.local, packet)
                               [] branch = "discover_flows" ->
                                     SendFrame(3, send_ok, wire.local, DiscoveryPacket)
                               [] branch = "dropped" -> wire.local]
    /\ UNCHANGED <<registry_vars, engine_vars, thread_vars, now, fg, call>>

\* NetworkFlow::inject_packet(packet) on this node, with the peer on the
\* wire
inject_packet_on_wire(packet, send_ok) ==
    /\ ForegroundReady
    /\ \E streams \in InjectInto(active_streams_, packet) :
          active_streams_' = streams
    /\ wire' = [wire EXCEPT !.peer = SendFrame(raw_socket_, send_ok, @, packet)]
    /\ call' = [op |-> "inject_packet", path |-> "returned",
                ret |-> SendRawPacket(raw_socket_, send_ok), notified |-> 0]
    /\ UNCHANGED <<registry_vars, flow_patterns_, raw_socket_, thread_vars, now, fg>>

\* NetworkFlow::discover_flows() on this node, with the peer on the wire
discover_flows_on_wire(send_ok) ==
    /\ ForegroundReady
    /\ wire' = [wire EXCEPT !.peer = SendFrame(raw_socket_, send_ok, @, DiscoveryPacket)]
    /\ call' = [op |-> "discover_flows", path |-> "returned",
                ret |-> SendRawPacket(raw_socket_, send_ok), notified |-> 0]
    /\ UNCHANGED <<registry_vars, engine_vars, thread_vars, now, fg>>

\* NetworkFlow::inject_packet(packet) on the peer: the frame it sends
peer_inject_packet(packet) ==
    /\ wire' = [wire EXCEPT !.local = SendFrame(3, TRUE, @, packet)]
    /\ UNCHANGED <<registry_vars, engine_vars, thread_vars, now, fg, call>>

\* the wire loses the first frame on its way to this node
frame_lost ==
    /\ wire.local # <<>>
    /\ wire' = [wire EXCEPT !.local = Tail(@)]
    /\ UNCHANGED <<registry_vars, engine_vars, thread_vars, now, fg, call>>

\* a packet type no enumerator of PacketType has
UnknownType == 9

\* the packets the nodes inject: one of every packet type and one of an
\* unknown type
ExchangePackets ==
    {RawPacket(StreamFlow, type, <<120>>, now) :
        type \in {FLOW_DATA, FLOW_CONTROL, FLOW_HEARTBEAT, FLOW_EDIT, FLOW_DISCOVERY,
                  UnknownType}}

\* no frame is on its way: the nodes make their calls one at a time
Quiet == wire = NoFrames

\* this node can take the frame that is on its way to it: the socket it
\* receives from is open, and its streams have room for the packet if the
\* frame is one that inject_packet gets
FrameRoom ==
    /\ wire.local # <<>>
    /\ raw_socket_ >= 0
    /\ HandlerBranch(Head(wire.local).packet_type) = "inject_packet" =>
          PacketRoom(Head(wire.local))

ExchangeNext ==
    \/ \E outcome \in {"bind_fails", "ok"} : Quiet /\ initialize_interface(<<"e">>, outcome)
    \/ Quiet /\ remove_stream(StreamFlow)
    \/ \E p \in ExchangePackets : \E send_ok \in BOOLEAN :
          Quiet /\ PacketRoom(p) /\ inject_packet_on_wire(p, send_ok)
    \/ \E send_ok \in BOOLEAN : Quiet /\ discover_flows_on_wire(send_ok)
    \/ \E p \in ExchangePackets : Quiet /\ peer_inject_packet(p)
    \/ \E send_ok \in BOOLEAN : FrameRoom /\ handle_incoming_packet(send_ok)
    \/ \E send_ok \in BOOLEAN : peer_handle_incoming_packet(send_ok)
    \/ ~FrameRoom /\ frame_lost

SpecExchange == Init /\ [][ExchangeNext]_vars

\* C31: a received DATA, HEARTBEAT or EDIT frame is added to the stream of
\* its flow id, which is created if absent; a received DISCOVERY frame
\* causes exactly one DISCOVERY frame with flow id 0 to be sent (handed to
\* send(), and on the wire when send() takes it) and changes no stream or
\* pattern; a CONTROL frame or a frame of unknown type changes no engine
\* state and sends nothing.
C31_IncomingDispatch ==
    [][(wire.local # <<>> /\ call'.op = "handle_incoming_packet") =>
          \A send_ok \in BOOLEAN :
             handle_incoming_packet(send_ok) =>
                LET packet == Head(wire.local)
                    type == packet.packet_type
                IN /\ type \in {FLOW_DATA, FLOW_HEARTBEAT, FLOW_EDIT} =>
                         /\ GetStream(active_streams_', packet.flow_id) # 0
                         /\ \E j \in 1..Len(active_streams_'[GetStream(active_streams_',
                                                packet.flow_id)].packets) :
                               active_streams_'[GetStream(active_streams_',
                                  packet.flow_id)].packets[j] = packet
                         /\ UNCHANGED flow_patterns_
                   /\ type = FLOW_DISCOVERY =>
                         /\ wire'.peer =
                               IF call'.ret THEN Append(wire.peer, DiscoveryPacket)
                               ELSE wire.peer
                         /\ call'.ret = send_ok
                         /\ DiscoveryPacket.flow_id = 0
                         /\ DiscoveryPacket.packet_type = FLOW_DISCOVERY
                         /\ UNCHANGED <<active_streams_, flow_patterns_>>
                   /\ type \notin {FLOW_DATA, FLOW_HEARTBEAT, FLOW_EDIT, FLOW_DISCOVERY} =>
                         /\ wire'.peer = wire.peer
                         /\ UNCHANGED <<registry_vars, engine_vars, thread_vars>>]_vars

\* C31's case: a DISCOVERY frame was received and the one DISCOVERY frame
\* with flow id 0 is on its way to the peer, with a stream held
C31_Witness ==
    /\ call.op = "handle_incoming_packet"
    /\ call.path = "discover_flows"
    /\ call.ret = TRUE
    /\ wire.peer = <<DiscoveryPacket>>
    /\ active_streams_ # <<>>

\* each node goes on receiving: a frame on its way is received and handled,
\* or lost
SpecExchangeFair ==
    /\ SpecExchange
    /\ WF_vars(\E send_ok \in BOOLEAN : FrameRoom /\ handle_incoming_packet(send_ok))
    /\ WF_vars(\E send_ok \in BOOLEAN : peer_handle_incoming_packet(send_ok))
    /\ WF_vars(~FrameRoom /\ frame_lost)

\* C38: frame exchange quiesces: with two nodes that each pass every
\* received frame to handle_incoming_packet, after a single discover_flows()
\* or inject_packet() on one node eventually no frame is on its way.
C38_ExchangeQuiesces == (~Quiet) ~> Quiet

(***************************************************************************)
(* Content cut into packets and put together again (specification          *)
(* SpecChunks).                                                            *)
(***************************************************************************)
\* FlowFile::decode_content_from_packets: the payloads of the packets,
\* sorted by sequence number, one after the other; then
\* deserialize_content.  The files the call may leave
DecodeContentFromPackets(file, packets) ==
    {FileMutated(file, DeserializeContent(ConcatPayloads(sorted))) :
        sorted \in SortOutcomes(packets)}

\* FlowFile::encode_content_in_packets() on the open flow flow_name: the
\* packets it builds are what the call is seen to return
encode_content_in_packets(flow_name) ==
    /\ ForegroundReady
    /\ flow_name \in DOMAIN active_files_
    /\ call' = [op |-> "encode_content_in_packets", path |-> "returned",
                ret |-> EncodeContentInPackets(active_files_[flow_name], now),
                notified |-> 0]
    /\ UNCHANGED <<registry_vars, engine_vars, thread_vars, now, wire, fg>>

\* FlowFile::decode_content_from_packets(packets) on the open flow flow_name
decode_content_from_packets(flow_name, packets) ==
    /\ ForegroundReady
    /\ flow_name \in DOMAIN active_files_
    /\ \E file \in DecodeContentFromPackets(active_files_[flow_name], packets) :
          active_files_' = [active_files_ EXCEPT ![flow_name] = file]
    /\ call' = [op |-> "decode_content_from_packets", path |-> "mutated",
                ret |-> packets,
                notified |-> NotifyContentChange(active_files_[flow_name])]
    /\ UNCHANGED <<next_flow_id_, issued, engine_vars, thread_vars, now, wire, fg>>

\* the content is cut into this many full packets at most, and one more
MaxChunks == 2

\* the lengths of the contents cut: around every multiple of the packet
\* size
ChunkLengths ==
    {n * MAX_PACKET_SIZE + d : n \in 0..MaxChunks, d \in {0 - 1, 0, 1}} \cap Nat

\* the contents cut: of each length one without a newline, one that begins
\* with a newline and one that ends with it
ChunkContents ==
    UNION {{[i \in 1..len |-> IF i = k THEN "\n" ELSE "x"] : k \in {0, 1, len}} :
              len \in ChunkLengths}

\* the orders a sequence of packets can be handed over in
Shuffles(ps) ==
    LET n == Len(ps)
    IN {[i \in 1..n |-> ps[f[i]]] :
          f \in {g \in [1..n -> 1..n] :
                    \A i \in 1..n : \A j \in 1..n : i # j => g[i] # g[j]}}

ChunksNext ==
    \/ \E n \in ContentNames : open_flow(n)
    \/ \E n \in ContentNames : set_content_change_callback(n)
    \/ \E n \in ContentNames : \E data \in ChunkContents : write_to_flow(n, data)
    \/ \E n \in ContentNames : encode_content_in_packets(n)
    \/ /\ call.op = "encode_content_in_packets"
       /\ \E n \in ContentNames : \E packets \in Shuffles(call.ret) :
             decode_content_from_packets(n, packets)
    \/ \E n \in ContentNames : maintain_flow(n)

SpecChunks == Init /\ [][ChunksNext]_vars

\* C32: encode_content_in_packets splits content of length L into exactly
\* ceil(L / MAX_PACKET_SIZE) DATA packets carrying the flow's id, numbered
\* 0, 1, 2, ... in ascending order, each with a payload that is not empty
\* and of MAX_PACKET_SIZE bytes at most; empty content yields no packet; and
\* decode_content_from_packets applied to those packets in any order
\* restores the original content.
C32_EncodeDecode ==
    [][call'.op = "encode_content_in_packets" =>
          \A n \in ContentNames :
             encode_content_in_packets(n) =>
                LET file == active_files_[n]
                    packets == call'.ret
                IN /\ Len(packets) =
                         (Len(file.content) + MAX_PACKET_SIZE - 1) \div MAX_PACKET_SIZE
                   /\ \A i \in 1..Len(packets) :
                         /\ packets[i].flow_id = file.identifier
                         /\ packets[i].packet_type = FLOW_DATA
                         /\ packets[i].sequence = i - 1
                         /\ Len(packets[i].payload) \in 1..MAX_PACKET_SIZE
                   /\ \A shuffled \in Shuffles(packets) :
                         \A decoded \in DecodeContentFromPackets(file, shuffled) :
                            decoded.content = file.content]_vars

\* C32's case: a content of one byte more than MaxChunks full packets has
\* been cut into MaxChunks + 1 packets
C32_Witness ==
    /\ call.op = "encode_content_in_packets"
    /\ Len(call.ret) = MaxChunks + 1
    /\ Len(call.ret[MaxChunks + 1].payload) = 1
    /\ \E n \in DOMAIN active_files_ :
          Len(active_files_[n].content) = MaxChunks * MAX_PACKET_SIZE + 1

(***************************************************************************)
(* Further properties of the packet codec (specification SpecCodec).       *)
(***************************************************************************)
\* RawPacket::is_flow_packet
IsFlowPacket(p) == p.magic = FLOW_MAGIC

\* C33: a deserialize call that returns false leaves the packet as it was
\* before the call: header fields and payload are unchanged, so a packet
\* that satisfied is_valid() and is_flow_packet() before still satisfies
\* them afterwards.
C33_FailedDeserializeKeeps ==
    [][(call.op = "serialize" /\ call'.op = "deserialize" /\ call'.path = "false") =>
          \A target \in CodecTargets : \A data \in CodecInputs(call.ret.bytes) :
             deserialize(target, data) =>
                /\ call'.ret = target
                /\ (IsValid(target) /\ IsFlowPacket(target)) =>
                      (IsValid(call'.ret) /\ IsFlowPacket(call'.ret))]_vars

(***************************************************************************)
(* Further properties of the engine's collections (specifications          *)
(* SpecEngine and SpecPatterns).                                           *)
(***************************************************************************)
\* C34: the engine holds at most one stream per flow id: in every state
\* reached by add_stream, remove_stream and inject_packet calls, no two
\* entries of the stream collection have the same flow_id.
C34_OneStreamPerFlow ==
    \A id \in EngineIds : Len(StreamsOf(active_streams_, id)) <= 1

\* C35: every entry of the engine's pattern map is stored under its own id
\* after any add_circulation_pattern, modify_flow_pattern and
\* remove_circulation_pattern calls, and modify_flow_pattern on an id that
\* has no pattern adds nothing.
C35_PatternUnderOwnId ==
    [][/\ \A id \in DOMAIN flow_patterns_' : flow_patterns_'[id].id = id
       /\ (call'.op = "modify_flow_pattern" /\ PatternsLockFree) =>
             \A id \in EngineIds \ DOMAIN flow_patterns_ :
                \A p \in EnginePatterns :
                   modify_flow_pattern(id, p) => flow_patterns_' = flow_patterns_]_vars

\* C36: within one stream no two held packets carry the same sequence
\* number, after any sequence of inject_packet calls.
C36_SequencesDistinct ==
    \A i \in 1..Len(active_streams_) :
       \A j, k \in 1..Len(active_streams_[i].packets) :
          j # k => active_streams_[i].packets[j].sequence #
                      active_streams_[i].packets[k].sequence

(***************************************************************************)
(* Further properties of one stream (specification SpecStream).            *)
(***************************************************************************)
\* C37: cleanup_old_packets never evicts a packet that is not older than
\* the threshold: a packet whose timestamp is equal to or later than the
\* time of the call is still held, as often as before, after the call.
C37_CleanupKeepsYoung ==
    [][stream_cleanup_old_packets(StreamFlow) =>
          \A k \in 1..Len(StreamPacketsHeld(active_streams_)) :
             LET p == StreamPacketsHeld(active_streams_)[k]
             IN p.timestamp >= now =>
                Len(SelectSeq(StreamPacketsHeld(active_streams_'), LAMBDA q : q = p)) =
                   Len(SelectSeq(StreamPacketsHeld(active_streams_), LAMBDA q : q = p))]_vars

(***************************************************************************)
(* initialize_network called more than once (specification SpecInterface). *)
(***************************************************************************)
\* C39: for any sequence of initialize_network calls, successful or failed,
\* at most one scheduler thread and one discovery thread exist, no call
\* assigns to the handle of a thread that is still running (which ends the
\* process), and no call overwrites the number of a socket that is still
\* open.
C39_InitializeNetworkRepeated ==
    [][call'.op = "initialize_network" =>
          \A outcome \in InterfaceOutcomes :
             initialize_network(<<"e">>, outcome) =>
                /\ live_workers' <= 1
                /\ (discovery = "running" /\ outcome = "ok") => process' # "terminated"
                /\ raw_socket_ >= 0 => raw_socket_' = raw_socket_]_vars

(***************************************************************************)
(* The loop of substitute_content, which the foreground thread goes on     *)
(* running once it is in it (specification SpecEditFair).                  *)
(***************************************************************************)
SpecEditFair == SpecEdit /\ WF_vars(substitute_round)

\* C40: substitute_content(pattern, replacement) terminates for every
\* pattern and replacement, the empty pattern included: a foreground thread
\* that entered the call is eventually between two calls again.
C40_SubstituteTerminates ==
    (fg.pc = "substitute_content") ~> (fg.pc = "idle")

=============================================================================
